---- MODULE Spec2Model ----
(***************************************************************************)
(* A model of the LSM-tree storage engine: the memtable, the write-ahead   *)
(* log, the sorted tables, the k-way merging compactor and the engine that *)
(* coordinates them (src/src/{memtable,wal,sstable,compaction,engine}.rs). *)
(*                                                                         *)
(* Keys and values are byte strings (sequences of numbers 0..255).  The    *)
(* log file is modelled byte by byte (Wal::append frames, Wal::recover     *)
(* parses).  A sorted-table file is modelled by its regions: the data      *)
(* region as the sequence of its records, the sparse index as a map from   *)
(* key to the byte offset of its record, the filter as the set of keys     *)
(* added to it.  Callers are threads that run put, delete, get and flush   *)
(* step by step, one step per critical section; the background compaction *)
(* is a thread of its own.                                                 *)
(***************************************************************************)
EXTENDS Integers, Sequences, FiniteSets, TLC

VARIABLES
    active_memtable,     \* Engine.active_memtable: [entries, approximate_size]
    max_memtable_size,   \* Engine.max_memtable_size (MemTable.max_size)
    wal_file,            \* the bytes of <dir>/active.wal
    wal_writer,          \* Wal.writer: the bytes its BufWriter holds back after a failed flush
    sstables,            \* Engine.sstables: the live readers (paths), newest first
    dir,                 \* the .sst files of the data directory: path -> file
    compaction_running,  \* Engine.compaction_running
    clock,               \* SystemTime::now() in nanoseconds
    mt_lock,             \* writer holding active_memtable's RwLock (NoThread: free)
    wal_lock,            \* writer holding wal's RwLock (NoThread: free)
    callers,             \* the threads that call the engine
    pc,                  \* per caller: where it is in its call
    op,                  \* per caller: its current (or, when idle, last) call
    ret,                 \* per caller: the result of its last get
    cpc,                 \* where the background compaction thread is
    to_compact,          \* the compaction thread's snapshot of the table list
    output_path,         \* the compaction thread's output file
    synced,              \* the .sst files whose bytes are on stable storage
    writes_left,         \* put/delete calls the run may still start
    last_op,             \* history: per key, the effect of the last logged write
    failed,              \* history: the writes whose put or delete returned the error of the append
    unapplied,           \* history: callers whose record is in the log, not yet in the memtable
    mt_seq,              \* history: per key, the log sequence number last applied to the memtable
    wal_seq,             \* history: log sequence number of the last appended record
    ryw,                 \* history: per caller, its own last write while nobody else wrote the key
    epoch,               \* history: "first" open, "reopened" and only read, "used" after a
                         \* reopen; "crashed", "crashed_in_flush", and "recovered" from then on
    open_result,         \* the result of the last Engine::open: "ok" or "err"
    compactions,         \* history: compaction threads spawned and not yet ended
    wcount,              \* history: per key, the writes logged since the engine was opened
    bench                \* a component used on its own, outside an engine: a table, a log, a filter

vars == <<active_memtable, max_memtable_size, wal_file, wal_writer, sstables, dir,
          compaction_running, clock, mt_lock, wal_lock, callers, pc, op, ret,
          cpc, to_compact, output_path, synced, writes_left, last_op, failed,
          unapplied, mt_seq, wal_seq, ryw, epoch, open_result, compactions, wcount,
          bench>>

(***************************************************************************)
(* Bounds of the model.                                                    *)
(***************************************************************************)
MaxThreads == 2        \* caller threads of the concurrent specification
MaxWritesSeq == 4      \* put/delete calls of a run with one caller
MaxWritesConc == 2     \* put/delete calls of a run with MaxThreads callers
MaxWritesOs == 2       \* put/delete calls of a run with the writeback of the operating system
MaxWritesFail == 2     \* put/delete calls of a run with one caller and failing compactions
MaxWritesCrash == 2    \* put/delete calls of a run with one caller and crashes
MaxWritesEdge == 2     \* put/delete calls of a run with one caller and empty byte strings
MaxWritesAppendFail == 2
MaxWritesCheck == 4
MaxWritesLive == 2
MaxTableOps == 4       \* put/delete calls on the memtable a table is built from
MaxFilterAdds == 4     \* add calls on a filter
MaxLogOps == 3         \* append and truncate calls on a log

Threads == 1..MaxThreads
NoThread == 0

Keys == {<<1>>, <<2>>}
Values == {<<7>>, <<8, 8>>}
\* the keys and values of the runs with the empty byte string
EdgeKeys == {<<>>, <<1>>}
EdgeValues == {<<>>, <<7>>}
AllKeys == Keys \cup EdgeKeys
\* Engine::open(dir, max_memtable_size): the thresholds the runs are opened with
MemtableSizes == {2, 5}

(***************************************************************************)
(* Byte strings.                                                           *)
(***************************************************************************)
\* Vec<u8> ordering: lexicographic
RECURSIVE BytesLess(_, _)
BytesLess(a, b) ==
    IF b = <<>> THEN FALSE
    ELSE IF a = <<>> THEN TRUE
    ELSE IF a[1] # b[1] THEN a[1] < b[1]
    ELSE BytesLess(Tail(a), Tail(b))

BytesLeq(a, b) == a = b \/ BytesLess(a, b)

\* the least key of a non-empty set
MinKey(S) == CHOOSE k \in S : \A j \in S : BytesLeq(k, j)

\* BTreeMap iteration order: the keys of S ascending
RECURSIVE SortedKeys(_)
SortedKeys(S) ==
    IF S = {} THEN <<>>
    ELSE LET m == MinKey(S) IN <<m>> \o SortedKeys(S \ {m})

\* u32::to_le_bytes / u32::from_le_bytes
ToLe32(n) == <<n % 256, (n \div 256) % 256, (n \div 65536) % 256, (n \div 16777216) % 256>>
FromLe32(b) == b[1] + 256 * b[2] + 65536 * b[3] + 16777216 * b[4]

(***************************************************************************)
(* memtable.rs                                                             *)
(***************************************************************************)
\* enum Entry { Value(Vec<u8>), Tombstone }
Value(v) == [tomb |-> FALSE, v |-> v]
Tombstone == [tomb |-> TRUE, v |-> <<>>]

\* Option<Vec<u8>>, the result of a get
Some(v) == [some |-> TRUE, v |-> v]
None == [some |-> FALSE, v |-> <<>>]

EmptyEntries == [k \in {} |-> Tombstone]

\* MemTable::new
MemTableNew == [entries |-> EmptyEntries, approximate_size |-> 0]

\* BTreeMap::insert
MapInsert(m, key, e) == [k \in DOMAIN m \cup {key} |-> IF k = key THEN e ELSE m[k]]

\* MemTable::put
MemTablePut(mt, key, value) ==
    LET key_len == Len(key)
        val_len == Len(value)
        size_diff == key_len + val_len
        entries == MapInsert(mt.entries, key, Value(value))
    IN  IF key \in DOMAIN mt.entries
        THEN LET old_entry == mt.entries[key]
             IN  IF ~old_entry.tomb
                 THEN [entries |-> entries,
                       approximate_size |-> mt.approximate_size - Len(old_entry.v) + val_len]
                 ELSE [entries |-> entries,
                       approximate_size |-> mt.approximate_size + val_len]
        ELSE [entries |-> entries,
              approximate_size |-> mt.approximate_size + size_diff]

\* delete that leaves the size of a replaced value in the counter
MemTableDeleteKeepingSize(mt, key) ==
    [entries |-> MapInsert(mt.entries, key, Tombstone),
     approximate_size |-> IF key \in DOMAIN mt.entries THEN mt.approximate_size
                          ELSE mt.approximate_size + Len(key)]

\* MemTable::delete
MemTableDelete(mt, key) ==
    LET key_len == Len(key)
        entries == MapInsert(mt.entries, key, Tombstone)
    IN  IF key \in DOMAIN mt.entries
        THEN LET old_entry == mt.entries[key]
             IN  IF ~old_entry.tomb
                 THEN [entries |-> entries,
                       approximate_size |-> mt.approximate_size - Len(old_entry.v)]
                 ELSE [entries |-> entries,
                       approximate_size |-> mt.approximate_size]
        ELSE [entries |-> entries,
              approximate_size |-> mt.approximate_size + key_len]

\* is_full with > for >=
IsFullStrict(mt, max_size) == mt.approximate_size > max_size

\* MemTable::is_full
IsFull(mt, max_size) == mt.approximate_size >= max_size

\* MemTable::clear
MemTableClear(mt) == [entries |-> EmptyEntries, approximate_size |-> 0]

\* MemTable::iter: (key, entry) pairs in ascending key order
MemTableIter(mt) ==
    LET ks == SortedKeys(DOMAIN mt.entries)
    IN  [i \in 1..Len(ks) |-> [key |-> ks[i], entry |-> mt.entries[ks[i]]]]

(***************************************************************************)
(* wal.rs                                                                  *)
(***************************************************************************)
\* enum WalEntry { Put { key, value }, Delete { key } }
WalPut(key, value) == [type |-> 0, key |-> key, value |-> value]
WalDelete(key) == [type |-> 1, key |-> key, value |-> <<>>]

\* Wal::append: the bytes one entry adds to the file
WalFrame(entry) ==
    IF entry.type = 0
    THEN <<0>> \o ToLe32(Len(entry.key)) \o entry.key
              \o ToLe32(Len(entry.value)) \o entry.value
    ELSE <<1>> \o ToLe32(Len(entry.key)) \o entry.key

WalAppend(bytes, entry) == bytes \o WalFrame(entry)

\* truncate that leaves the file as it is
WalTruncateKeeping(bytes) == bytes

\* Wal::truncate
WalTruncate(bytes) == <<>>

\* the drop of Wal.writer with bytes pending: the BufWriter flushes them into
\* its file handle and ignores an error. The handle of Wal::open (line 35) is
\* in append mode and writes at the end of the file; the handle of
\* Wal::truncate (lines 123-126) writes at its own position at, past a hole of
\* zero bytes when the file is shorter
WriterDrop(bytes, pending, at) ==
    IF pending = <<>> THEN {bytes}
    ELSE {bytes, bytes \o pending,
          bytes \o [i \in 1..(IF at > Len(bytes) THEN at - Len(bytes) ELSE 0) |-> 0] \o pending}

\* read_exact of n bytes at position pos (1-based) succeeds
CanRead(bytes, pos, n) == pos + n - 1 <= Len(bytes)

\* io::Result<Vec<WalEntry>>: an error carries no entries
WalErr == [ok |-> FALSE, entries |-> <<>>]

\* recover that takes a record the file ends in for the end of the log
RECURSIVE WalRecoverFromLenient(_, _, _)
WalRecoverFromLenient(bytes, pos, entries) ==
    IF ~CanRead(bytes, pos, 1)
    THEN [ok |-> TRUE, entries |-> entries]
    ELSE IF bytes[pos] \notin {0, 1} THEN WalErr
    ELSE IF ~CanRead(bytes, pos + 1, 4) THEN [ok |-> TRUE, entries |-> entries]
    ELSE
      LET key_len == FromLe32(SubSeq(bytes, pos + 1, pos + 4))
          kpos == pos + 5
      IN
      IF ~CanRead(bytes, kpos, key_len) THEN [ok |-> TRUE, entries |-> entries]
      ELSE
        LET key == SubSeq(bytes, kpos, kpos + key_len - 1)
            vlpos == kpos + key_len
        IN
        IF bytes[pos] = 1
        THEN WalRecoverFromLenient(bytes, vlpos, Append(entries, WalDelete(key)))
        ELSE IF ~CanRead(bytes, vlpos, 4) THEN [ok |-> TRUE, entries |-> entries]
        ELSE
          LET value_len == FromLe32(SubSeq(bytes, vlpos, vlpos + 3))
              vpos == vlpos + 4
          IN
          IF ~CanRead(bytes, vpos, value_len) THEN [ok |-> TRUE, entries |-> entries]
          ELSE WalRecoverFromLenient(bytes, vpos + value_len,
                     Append(entries, WalPut(key, SubSeq(bytes, vpos, vpos + value_len - 1))))

\* Wal::recover: the loop from byte pos on, entries holding what was read so far
RECURSIVE WalRecoverFrom(_, _, _)
WalRecoverFrom(bytes, pos, entries) ==
    IF ~CanRead(bytes, pos, 1)
    THEN [ok |-> TRUE, entries |-> entries]
    ELSE IF bytes[pos] \notin {0, 1} THEN WalErr
    ELSE IF ~CanRead(bytes, pos + 1, 4) THEN WalErr
    ELSE
      LET key_len == FromLe32(SubSeq(bytes, pos + 1, pos + 4))
          kpos == pos + 5
      IN
      IF ~CanRead(bytes, kpos, key_len) THEN WalErr
      ELSE
        LET key == SubSeq(bytes, kpos, kpos + key_len - 1)
            vlpos == kpos + key_len
        IN
        IF bytes[pos] = 1
        THEN WalRecoverFrom(bytes, vlpos, Append(entries, WalDelete(key)))
        ELSE IF ~CanRead(bytes, vlpos, 4) THEN WalErr
        ELSE
          LET value_len == FromLe32(SubSeq(bytes, vlpos, vlpos + 3))
              vpos == vlpos + 4
          IN
          IF ~CanRead(bytes, vpos, value_len) THEN WalErr
          ELSE WalRecoverFrom(bytes, vpos + value_len,
                     Append(entries, WalPut(key, SubSeq(bytes, vpos, vpos + value_len - 1))))

WalRecover(bytes) == WalRecoverFrom(bytes, 1, <<>>)

\* Engine::open, lines 37-43: the recovered entries replayed into a fresh memtable
RECURSIVE Replay(_, _)
Replay(mt, entries) ==
    IF entries = <<>> THEN mt
    ELSE LET e == Head(entries)
         IN  Replay(IF e.type = 0 THEN MemTablePut(mt, e.key, e.value)
                                  ELSE MemTableDelete(mt, e.key),
                    Tail(entries))

(***************************************************************************)
(* sstable.rs                                                              *)
(***************************************************************************)
\* Engine::flush and compact build with SSTableBuilder::new(path, 16)
SparseInterval == 16

\* bytes of one record of the data region: key length, key, value length, value
RecordLen(r) == 4 + Len(r.key) + 4 + (IF r.entry.tomb THEN 0 ELSE Len(r.entry.v))

\* byte offset of the i-th record of a data region (0-based offsets, 1-based i)
RECURSIVE OffsetOf(_, _)
OffsetOf(data, i) == IF i <= 1 THEN 0 ELSE OffsetOf(data, i - 1) + RecordLen(data[i - 1])

\* BloomFilter::new(1000, 0.01), bloom.rs line 26: the bytes of the bit vector
BloomBytes == 1199

\* BloomFilter::serialize: num_hashes, num_bits, then the bit vector
BloomLen == 4 + 4 + BloomBytes

\* bytes of the data region
DataLen(data) == OffsetOf(data, Len(data) + 1)

\* SSTableBuilder::finish, lines 107-112: the entries of the index region, in
\* key order, each written as key length, key and u64 offset
IndexItems(index) ==
    LET ks == SortedKeys(DOMAIN index)
    IN  [i \in 1..Len(ks) |-> [key |-> ks[i], offset |-> index[ks[i]]]]

IndexItemLen(item) == 4 + Len(item.key) + 8

RECURSIVE IndexLen(_)
IndexLen(items) ==
    IF items = <<>> THEN 0 ELSE IndexItemLen(Head(items)) + IndexLen(Tail(items))

\* the units a checksum folds: a record of the data region, the serialized
\* filter, an entry of the index region
RecordUnit(r) ==
    [region |-> "data", key |-> r.key, entry |-> r.entry, offset |-> 0, filter |-> {}]
FilterUnit(bloom) ==
    [region |-> "filter", key |-> <<>>, entry |-> Tombstone, offset |-> 0, filter |-> bloom]
IndexUnit(item) ==
    [region |-> "index", key |-> item.key, entry |-> Tombstone, offset |-> item.offset,
     filter |-> {}]

RecordUnits(data) == [i \in 1..Len(data) |-> RecordUnit(data[i])]
IndexUnits(items) == [i \in 1..Len(items) |-> IndexUnit(items[i])]

\* crc32_update: a fold over the bytes, independent of how they are cut into
\* buffers; the running checksum is kept as the sequence of the units folded
\* so far
Crc32Update(crc, units) == crc \o units

\* The filter of a table, by the keys it answers for: those added, and the
\* colliding ones, keys never added whose bits the added keys set (which keys
\* collide is fixed by the hash function; the few short keys of an engine's
\* run do not).  FilterSound below states on the bit vector that every added
\* key is answered for.
BloomNew(colliding) == [added |-> {}, colliding |-> colliding]
\* BloomFilter::add
BloomAdd(bloom, key) == [bloom EXCEPT !.added = @ \cup {key}]
\* BloomFilter::contains
BloomContains(bloom, key) ==
    key \in bloom.added \/ (bloom.added # {} /\ key \in bloom.colliding)

\* SSTableBuilder::new(path, sparse_interval); checksum starts at 0xFFFFFFFF
\* (nothing folded)
BuilderWith(sparse_interval, colliding) ==
    [data |-> <<>>, index |-> [k \in {} |-> 0], record_count |-> 0,
     sparse_interval |-> sparse_interval, bloom |-> BloomNew(colliding), position |-> 0,
     checksum |-> <<>>]

\* the builder of Engine::flush and of compact
BuilderNew == BuilderWith(SparseInterval, {})

\* SSTableBuilder::add_record
AddRecord(b, key, entry) ==
    LET current_offset == b.position
        r == [key |-> key, entry |-> entry]
    IN  [data |-> Append(b.data, r),
         index |-> IF b.record_count % b.sparse_interval = 0
                   THEN MapInsert(b.index, key, current_offset)
                   ELSE b.index,
         record_count |-> b.record_count + 1,
         sparse_interval |-> b.sparse_interval,
         bloom |-> BloomAdd(b.bloom, key),
         position |-> b.position + RecordLen(r),
         checksum |-> Crc32Update(b.checksum, <<RecordUnit(r)>>)]

\* finish with the checksum finalized before the index region is written
FinishChecksumBeforeIndex(b) ==
    LET index_items == IndexItems(b.index)
    IN  [data |-> b.data, bloom |-> b.bloom, index |-> b.index,
         footer |-> <<[bloom_offset |-> b.position, bloom_size |-> BloomLen,
                       index_offset |-> b.position + BloomLen,
                       index_size |-> IndexLen(index_items),
                       checksum |-> Crc32Update(b.checksum, <<FilterUnit(b.bloom)>>)]>>]

\* SSTableBuilder::finish: the file with its data, filter and index regions
\* and its footer (a file that was never finished has footer <<>>)
Finish(b) ==
    LET bloom_offset == b.position
        bloom_size == BloomLen
        index_offset == bloom_offset + bloom_size
        index_items == IndexItems(b.index)
        index_size == IndexLen(index_items)
        final_checksum == Crc32Update(Crc32Update(b.checksum, <<FilterUnit(b.bloom)>>),
                                      IndexUnits(index_items))
    IN  [data |-> b.data, bloom |-> b.bloom, index |-> b.index,
         footer |-> <<[bloom_offset |-> bloom_offset, bloom_size |-> bloom_size,
                       index_offset |-> index_offset, index_size |-> index_size,
                       checksum |-> final_checksum]>>]

RECURSIVE AddRecords(_, _)
AddRecords(b, recs) ==
    IF recs = <<>> THEN b
    ELSE AddRecords(AddRecord(b, Head(recs).key, Head(recs).entry), Tail(recs))

\* SSTableBuilder::build: the file built from a memtable
Build(mt) == Finish(AddRecords(BuilderNew, MemTableIter(mt)))

\* a file whose builder failed after writing the first n records: no filter,
\* no index, no footer
Unfinished(b, n) ==
    [data |-> SubSeq(b.data, 1, n), bloom |-> BloomNew({}), index |-> [k \in {} |-> 0],
     footer |-> <<>>]

\* SSTable::open, lines 190-201: the checksum folded over the data, filter
\* and index regions read back from the file
Recomputed(file) ==
    Crc32Update(Crc32Update(Crc32Update(<<>>, RecordUnits(file.data)),
                            <<FilterUnit(file.bloom)>>),
                IndexUnits(IndexItems(file.index)))

\* SSTable::open returns Ok: the footer is there, the index_offset + index_size
\* bytes it has the checksum read are the three regions, and the stored
\* checksum equals the recomputed one
SSTableOpen(file) ==
    /\ file.footer # <<>>
    /\ LET footer == file.footer[1]
           bytes_to_read == footer.index_offset + footer.index_size
       IN  /\ bytes_to_read
                = DataLen(file.data) + BloomLen + IndexLen(IndexItems(file.index))
           /\ Recomputed(file) = footer.checksum

\* io::Result<Option<Vec<u8>>>, the result of SSTable::get
Ok(val) == [ok |-> TRUE, val |-> val]
Err == [ok |-> FALSE, val |-> None]

\* SSTable::get, lines 263-293: the forward scan from the i-th record on.  The
\* loop ends at the key, at a greater key, or when a read fails: nothing stops
\* it at the end of the data region, after which it reads the filter's bytes
\* as records (past).
RECURSIVE ScanFrom(_, _, _)
ScanFrom(data, i, key) ==
    IF i > Len(data) THEN [past |-> TRUE, found |-> None]
    ELSE LET k == data[i].key
         IN  IF k = key
             THEN [past |-> FALSE,
                   found |-> IF data[i].entry.tomb THEN None ELSE Some(data[i].entry.v)]
             ELSE IF BytesLess(key, k) THEN [past |-> FALSE, found |-> None]
             ELSE ScanFrom(data, i + 1, key)

\* SSTable::get, lines 246-262: the filter gate, the greatest indexed key at
\* or below the key, and the scan from its offset
SSTableScan(file, key) ==
    IF ~BloomContains(file.bloom, key) THEN [past |-> FALSE, found |-> None]
    ELSE
      LET range == {k \in DOMAIN file.index : BytesLeq(k, key)}
      IN  IF range = {} THEN [past |-> FALSE, found |-> None]
          ELSE
            LET last == CHOOSE k \in range : \A j \in range : BytesLeq(j, k)
                block_offset == file.index[last]
                first == CHOOSE i \in 1..Len(file.data) : OffsetOf(file.data, i) = block_offset
            IN  ScanFrom(file.data, first, key)

\* SSTable::get, lines 263-293, once the scan is past the data region.  The
\* first thing read is the serialized filter: num_hashes as the key length,
\* then num_bits and the first bytes of the bit vector as the key.  A target
\* at or below the four num_bits bytes is below that key, and the loop ends
\* with Ok(None).  A greater target makes the loop go on through the bit
\* vector, the index and the footer, whose bytes depend on the hash values:
\* it ends with Ok(None) when a length read finds the file's end or a greater
\* key, and with the error of read_exact when the file ends inside what it
\* takes for a key or a value length.
PastData(key) ==
    IF BytesLeq(key, ToLe32(BloomBytes * 8)) THEN {Ok(None)} ELSE {Ok(None), Err}

\* SSTable::get: the results it can return
SSTableGetResults(file, key) ==
    LET scan == SSTableScan(file, key)
    IN  IF scan.past THEN PastData(key) ELSE {Ok(scan.found)}

\* SSTable::get on a table whose filter has no colliding key: the scan stays
\* in the data region
SSTableGet(file, key) == SSTableScan(file, key).found

(***************************************************************************)
(* compaction.rs                                                           *)
(***************************************************************************)
\* the ordering with the tie on equal keys broken towards the oldest input
IterItemGreaterOldest(a, b) ==
    \/ BytesLess(a.key, b.key)
    \/ a.key = b.key /\ a.sstable_index > b.sstable_index

\* Ord for IterItem: a is greater than b (BinaryHeap::pop returns the greatest)
IterItemGreater(a, b) ==
    \/ BytesLess(a.key, b.key)
    \/ a.key = b.key /\ a.sstable_index < b.sstable_index

\* BinaryHeap::pop
HeapTop(heap) == CHOOSE a \in heap : \A b \in heap \ {a} : IterItemGreater(a, b)

\* RecordIterator::next on input i (0-based) at record pos: the heap item, if any
NextItems(files, i, pos) ==
    IF pos <= Len(files[i + 1].data)
    THEN {[key |-> files[i + 1].data[pos].key, entry |-> files[i + 1].data[pos].entry,
           sstable_index |-> i, pos |-> pos]}
    ELSE {}

\* compact, lines 68-96: the merge loop
RECURSIVE MergeLoop(_, _, _, _)
MergeLoop(files, heap, last_key, builder) ==
    IF heap = {} THEN builder
    ELSE
      LET current == HeapTop(heap)
          rest == (heap \ {current})
                    \cup NextItems(files, current.sstable_index, current.pos + 1)
      IN  IF last_key.some /\ last_key.v = current.key
          THEN MergeLoop(files, rest, last_key, builder)
          ELSE MergeLoop(files, rest, Some(current.key),
                         AddRecord(builder, current.key, current.entry))

\* compact that drops the tombstones from its output
CompactElidingTombstones(files) ==
    LET heap == UNION {NextItems(files, i, 1) : i \in 0..(Len(files) - 1)}
        merged == MergeLoop(files, heap, None, BuilderNew).data
        IsValue(r) == ~r.entry.tomb
    IN  Finish(AddRecords(BuilderNew, SelectSeq(merged, IsValue)))

\* compact: the output file for a non-empty list of input files, newest first
Compact(files) ==
    LET heap == UNION {NextItems(files, i, 1) : i \in 0..(Len(files) - 1)}
    IN  Finish(MergeLoop(files, heap, None, BuilderNew))

(***************************************************************************)
(* engine.rs: helpers                                                      *)
(***************************************************************************)
\* check_compaction starts a compaction at this many live tables
CompactionTrigger == 4

\* the file names format!("{:020}.sst", id) and format!("{:020}.compact.sst", id)
SstPath(id) == [id |-> id, compact |-> FALSE]
CompactPath(id) == [id |-> id, compact |-> TRUE]
NoPath == [id |-> 0, compact |-> FALSE]

\* file_name ordering: 20 zero-padded digits, then ".compact.sst" < ".sst"
NameLess(a, b) == a.id < b.id \/ (a.id = b.id /\ a.compact /\ ~b.compact)

\* Engine::open, lines 53-54: sort by file name, then reverse
RECURSIVE SortedDescending(_)
SortedDescending(S) ==
    IF S = {} THEN <<>>
    ELSE LET m == CHOOSE a \in S : \A b \in S \ {a} : NameLess(b, a)
         IN  <<m>> \o SortedDescending(S \ {m})

\* Engine::get, lines 94-100: the memtable part; found says whether get returns here
MemLookup(mt, key) ==
    IF key \in DOMAIN mt.entries
    THEN [found |-> TRUE,
          result |-> IF mt.entries[key].tomb THEN None ELSE Some(mt.entries[key].v)]
    ELSE [found |-> FALSE, result |-> None]

\* Engine::get, lines 103-110: the tables of the list from the i-th on, in order
RECURSIVE TablesLookup(_, _, _, _)
TablesLookup(files, ssts, i, key) ==
    IF i > Len(ssts) THEN None
    ELSE LET val == SSTableGet(files[ssts[i]], key)
         IN  IF val.some THEN val ELSE TablesLookup(files, ssts, i + 1, key)

\* Engine::get run without interruption on a memtable, a table list and a directory
EngineGet(mt, ssts, files, key) ==
    IF MemLookup(mt, key).found THEN MemLookup(mt, key).result
    ELSE TablesLookup(files, ssts, 1, key)

\* check_compaction, lines 201-203: retain the tables outside the snapshot, push the output
RECURSIVE Retain(_, _)
Retain(ssts, compacted_paths) ==
    IF ssts = <<>> THEN <<>>
    ELSE IF Head(ssts) \in compacted_paths THEN Retain(Tail(ssts), compacted_paths)
    ELSE <<Head(ssts)>> \o Retain(Tail(ssts), compacted_paths)

Range(seq) == {seq[i] : i \in DOMAIN seq}

\* a caller's call: kind, arguments, the log sequence number of its record,
\* the table file its flush writes, for a get, whether it started with its
\* key written and no write of the key in flight, and for a flush that writes
\* a table, the memtable and the table list it found (history)
NoOp == [kind |-> "none", key |-> <<>>, value |-> <<>>, seq |-> 0, sst_path |-> NoPath,
         settled |-> FALSE, mt0 |-> MemTableNew, list0 |-> <<>>]
\* a caller's own last write: its key, its effect, whether nobody else wrote the
\* key since, and whether it was a delete that found the key absent from the memtable
NoRyw == [valid |-> FALSE, key |-> <<>>, expect |-> None, absent |-> FALSE]

\* no component is used on its own
NoBench == [stage |-> "none"]

Idle(t) == pc[t] = "idle"
InWrite(t) == op[t].kind \in {"put", "delete"} /\ pc[t] # "idle"

(***************************************************************************)
(* engine.rs: the state after Engine::open                                 *)
(***************************************************************************)
\* Engine::open, lines 60-67, for callers ts on a directory holding files with
\* an empty log; history is what earlier generations of the engine logged
Opened(ts, budget, files, history) ==
    /\ active_memtable = Replay(MemTableNew, WalRecover(<<>>).entries)
    /\ max_memtable_size \in MemtableSizes
    /\ wal_file = <<>>
    /\ wal_writer = <<>>
    /\ sstables = SortedDescending(DOMAIN files)
    /\ dir = files
    /\ compaction_running = FALSE
    /\ clock = Cardinality(DOMAIN files) + 1
    /\ mt_lock = NoThread
    /\ wal_lock = NoThread
    /\ callers = ts
    /\ pc = [t \in Threads |-> "idle"]
    /\ op = [t \in Threads |-> NoOp]
    /\ ret = [t \in Threads |-> None]
    /\ cpc = "idle"
    /\ to_compact = <<>>
    /\ output_path = NoPath
    /\ synced = {}
    /\ writes_left = budget
    /\ last_op = history
    /\ failed = {}
    /\ unapplied = {}
    /\ mt_seq = [k \in AllKeys |-> 0]
    /\ wal_seq = 0
    /\ ryw = [t \in Threads |-> NoRyw]
    /\ epoch = IF DOMAIN files = {} THEN "first" ELSE "reopened"
    /\ open_result = "ok"
    /\ compactions = 0
    /\ wcount = [k \in AllKeys |-> 0]

\* an empty data directory
NoFiles == [p \in {} |-> Finish(BuilderNew)]

\* the data directory left by an engine that ran put(<<1>>, <<7>>), flush,
\* put(<<2>>, <<7>>), flush, put(<<1>>, <<8, 8>>), flush and was dropped
UsedFiles ==
    LET t1 == Build(MemTablePut(MemTableNew, <<1>>, <<7>>))
        t2 == Build(MemTablePut(MemTableNew, <<2>>, <<7>>))
        t3 == Build(MemTablePut(MemTableNew, <<1>>, <<8, 8>>))
    IN  [p \in {SstPath(1), SstPath(2), SstPath(3)} |->
           IF p.id = 1 THEN t1 ELSE IF p.id = 2 THEN t2 ELSE t3]
UsedHistory ==
    [k \in AllKeys |-> IF k = <<1>> THEN Some(<<8, 8>>) ELSE IF k = <<2>> THEN Some(<<7>>) ELSE None]

\* several caller threads on the used directory (one more flush starts a compaction)
Init == Opened(Threads, MaxWritesConc, UsedFiles, UsedHistory) /\ bench = NoBench

\* one caller thread on an empty directory
InitSeq == Opened({1}, MaxWritesSeq, NoFiles, [k \in AllKeys |-> None]) /\ bench = NoBench

\* history kept when caller t appends the record of a write of key to the log
LogHistory(t, key, effect) ==
    /\ last_op' = [last_op EXCEPT ![key] = effect]
    /\ unapplied' = unapplied \cup {t}
    /\ wal_seq' = wal_seq + 1
    /\ ryw' = [u \in Threads |->
                 IF u = t
                 THEN [valid |-> \A w \in callers \ {t} : ~(InWrite(w) /\ op[w].key = key),
                       key |-> key, expect |-> effect, absent |-> FALSE]
                 ELSE IF ryw[u].key = key THEN NoRyw ELSE ryw[u]]
    /\ epoch' = IF epoch = "reopened" THEN "used" ELSE epoch
    /\ writes_left' = writes_left - 1
    /\ wcount' = [wcount EXCEPT ![key] = @ + 1]
    /\ failed' = failed

(***************************************************************************)
(* Engine::put                                                             *)
(***************************************************************************)
\* lines 72-78: under the log lock, append the put record
PutAppend(t, key, value) ==
    /\ open_result = "ok"
    /\ Idle(t)
    /\ writes_left > 0
    /\ wal_lock = NoThread
    /\ wal_file' = WalAppend(wal_file \o wal_writer, WalPut(key, value))
    /\ wal_writer' = <<>>
    /\ pc' = [pc EXCEPT ![t] = "put_mt"]
    /\ op' = [op EXCEPT ![t] = [NoOp EXCEPT !.kind = "put", !.key = key, !.value = value,
                                             !.seq = wal_seq + 1]]
    /\ ret' = [ret EXCEPT ![t] = None]
    /\ LogHistory(t, key, Some(value))
    /\ UNCHANGED <<active_memtable, max_memtable_size, sstables, dir, compaction_running,
                   clock, mt_lock, wal_lock, callers, cpc, to_compact, output_path,
                   synced, mt_seq, open_result, compactions, bench>>

\* lines 80-88: under the memtable lock, insert; a full memtable is flushed
PutMem(t) ==
    /\ pc[t] = "put_mt"
    /\ mt_lock = NoThread
    /\ LET mt == MemTablePut(active_memtable, op[t].key, op[t].value)
       IN  /\ active_memtable' = mt
           /\ IF IsFull(mt, max_memtable_size)
              THEN /\ pc' = [pc EXCEPT ![t] = "flush"]
                   /\ op' = op
              ELSE /\ pc' = [pc EXCEPT ![t] = "idle"]
                   /\ op' = [op EXCEPT ![t] = NoOp]
    /\ mt_seq' = [mt_seq EXCEPT ![op[t].key] = op[t].seq]
    /\ unapplied' = unapplied \ {t}
    /\ UNCHANGED <<max_memtable_size, wal_file, wal_writer, sstables, dir, compaction_running, clock,
                   mt_lock, wal_lock, callers, ret, cpc, to_compact, output_path, synced,
                   writes_left, last_op, failed, wal_seq, ryw, epoch,
                   open_result, compactions, wcount, bench>>

\* lines 72-77 when Wal::append returns an error (wal.rs lines 47-59): the
\* flush of the writer has put the first n of its bytes into the file and
\* holds the others back; `?` returns the error before the memtable is touched
PutAppendFail(t, key, value) ==
    /\ open_result = "ok"
    /\ Idle(t)
    /\ writes_left > 0
    /\ wal_lock = NoThread
    /\ LET pending == wal_writer \o WalFrame(WalPut(key, value))
       IN  \E n \in {0, 1} :
              /\ wal_file' = wal_file \o SubSeq(pending, 1, n)
              /\ wal_writer' = SubSeq(pending, n + 1, Len(pending))
    /\ op' = [op EXCEPT ![t] = [NoOp EXCEPT !.kind = "put", !.key = key, !.value = value]]
    /\ ret' = [ret EXCEPT ![t] = Err]
    /\ failed' = failed \cup {[key |-> key, effect |-> Some(value)]}
    /\ writes_left' = writes_left - 1
    /\ UNCHANGED <<active_memtable, max_memtable_size, sstables, dir, compaction_running,
                   clock, mt_lock, wal_lock, callers, pc, cpc, to_compact, output_path,
                   synced, last_op, unapplied, mt_seq, wal_seq, ryw, epoch, open_result,
                   compactions, wcount, bench>>

(***************************************************************************)
(* Engine::delete                                                          *)
(***************************************************************************)
\* lines 115-118: under the log lock, append the delete record
DeleteAppend(t, key) ==
    /\ open_result = "ok"
    /\ Idle(t)
    /\ writes_left > 0
    /\ wal_lock = NoThread
    /\ wal_file' = WalAppend(wal_file \o wal_writer, WalDelete(key))
    /\ wal_writer' = <<>>
    /\ pc' = [pc EXCEPT ![t] = "delete_mt"]
    /\ op' = [op EXCEPT ![t] = [NoOp EXCEPT !.kind = "delete", !.key = key,
                                             !.seq = wal_seq + 1]]
    /\ ret' = [ret EXCEPT ![t] = None]
    /\ LogHistory(t, key, None)
    /\ UNCHANGED <<active_memtable, max_memtable_size, sstables, dir, compaction_running,
                   clock, mt_lock, wal_lock, callers, cpc, to_compact, output_path,
                   synced, mt_seq, open_result, compactions, bench>>

\* lines 120-128: under the memtable lock, tombstone; a full memtable is flushed
DeleteMem(t) ==
    /\ pc[t] = "delete_mt"
    /\ mt_lock = NoThread
    /\ LET mt == MemTableDelete(active_memtable, op[t].key)
       IN  /\ active_memtable' = mt
           /\ IF IsFull(mt, max_memtable_size)
              THEN /\ pc' = [pc EXCEPT ![t] = "flush"]
                   /\ op' = op
              ELSE /\ pc' = [pc EXCEPT ![t] = "idle"]
                   /\ op' = [op EXCEPT ![t] = NoOp]
    /\ mt_seq' = [mt_seq EXCEPT ![op[t].key] = op[t].seq]
    /\ unapplied' = unapplied \ {t}
    /\ ryw' = [ryw EXCEPT ![t].absent = op[t].key \notin DOMAIN active_memtable.entries]
    /\ UNCHANGED <<max_memtable_size, wal_file, wal_writer, sstables, dir, compaction_running, clock,
                   mt_lock, wal_lock, callers, ret, cpc, to_compact, output_path, synced,
                   writes_left, last_op, failed, wal_seq, epoch,
                   open_result, compactions, wcount, bench>>

\* lines 115-118 when Wal::append returns an error
DeleteAppendFail(t, key) ==
    /\ open_result = "ok"
    /\ Idle(t)
    /\ writes_left > 0
    /\ wal_lock = NoThread
    /\ LET pending == wal_writer \o WalFrame(WalDelete(key))
       IN  \E n \in {0, 1} :
              /\ wal_file' = wal_file \o SubSeq(pending, 1, n)
              /\ wal_writer' = SubSeq(pending, n + 1, Len(pending))
    /\ op' = [op EXCEPT ![t] = [NoOp EXCEPT !.kind = "delete", !.key = key]]
    /\ ret' = [ret EXCEPT ![t] = Err]
    /\ failed' = failed \cup {[key |-> key, effect |-> None]}
    /\ writes_left' = writes_left - 1
    /\ UNCHANGED <<active_memtable, max_memtable_size, sstables, dir, compaction_running,
                   clock, mt_lock, wal_lock, callers, pc, cpc, to_compact, output_path,
                   synced, last_op, unapplied, mt_seq, wal_seq, ryw, epoch, open_result,
                   compactions, wcount, bench>>

(***************************************************************************)
(* Engine::get                                                             *)
(***************************************************************************)
\* lines 93-101: under the memtable read lock, look the key up
GetMem(t, key) ==
    /\ open_result = "ok"
    /\ Idle(t)
    /\ mt_lock = NoThread
    /\ LET m == MemLookup(active_memtable, key)
       IN  /\ pc' = [pc EXCEPT ![t] = IF m.found THEN "idle" ELSE "get_sst"]
           /\ ret' = [ret EXCEPT ![t] = m.result]
    /\ op' = [op EXCEPT ![t] =
                [NoOp EXCEPT !.kind = "get", !.key = key,
                             !.settled = /\ wcount[key] >= 1
                                         /\ \A w \in callers :
                                               ~(InWrite(w) /\ op[w].key = key)]]
    /\ ryw' = [ryw EXCEPT ![t] = IF ryw[t].valid /\ ryw[t].key = key /\ op[t].kind # "get"
                                 THEN ryw[t] ELSE NoRyw]
    /\ UNCHANGED <<active_memtable, max_memtable_size, wal_file, wal_writer, sstables, dir,
                   compaction_running, clock, mt_lock, wal_lock, callers, cpc, to_compact,
                   output_path, synced, writes_left, last_op, failed, unapplied, mt_seq, wal_seq,
                   epoch,
                   open_result, compactions, wcount, bench>>

\* lines 103-110: under the table-list read lock, ask each table, newest first
GetSst(t) ==
    /\ pc[t] = "get_sst"
    /\ ret' = [ret EXCEPT ![t] = TablesLookup(dir, sstables, 1, op[t].key)]
    /\ pc' = [pc EXCEPT ![t] = "idle"]
    /\ UNCHANGED <<active_memtable, max_memtable_size, wal_file, wal_writer, sstables, dir,
                   compaction_running, clock, mt_lock, wal_lock, callers, op, cpc,
                   to_compact, output_path, synced, writes_left, last_op, failed, unapplied,
                   mt_seq, wal_seq, ryw, epoch,
                   open_result, compactions, wcount, bench>>

(***************************************************************************)
(* Engine::flush, called by a caller or from put/delete on a full memtable *)
(***************************************************************************)
\* lines 133-145: take the memtable lock; an empty memtable returns; otherwise
\* name the table by the clock and build its file from the memtable
FlushBegin(t) ==
    /\ open_result = "ok"
    /\ pc[t] \in {"idle", "flush"}
    /\ mt_lock = NoThread
    /\ LET call == IF Idle(t) THEN [NoOp EXCEPT !.kind = "flush"] ELSE op[t]
           sst_path == SstPath(clock)
       IN  IF active_memtable.approximate_size = 0
           THEN /\ pc' = [pc EXCEPT ![t] = "idle"]
                /\ op' = [op EXCEPT ![t] = IF Idle(t) THEN call ELSE NoOp]
                /\ UNCHANGED <<mt_lock, clock, dir>>
           ELSE /\ mt_lock' = t
                /\ clock' = clock + 1
                /\ dir' = MapInsert(dir, sst_path, Build(active_memtable))
                /\ pc' = [pc EXCEPT ![t] = "flush_insert"]
                /\ op' = [op EXCEPT ![t] = [call EXCEPT !.sst_path = sst_path,
                                                        !.mt0 = active_memtable,
                                                        !.list0 = sstables]]
    /\ ret' = IF Idle(t) THEN [ret EXCEPT ![t] = None] ELSE ret
    /\ ryw' = IF Idle(t) THEN [ryw EXCEPT ![t] = NoRyw] ELSE ryw
    /\ epoch' = IF Idle(t) /\ epoch = "reopened" THEN "used" ELSE epoch
    /\ UNCHANGED <<active_memtable, max_memtable_size, wal_file, wal_writer, sstables,
                   compaction_running, wal_lock, callers, cpc, to_compact, output_path,
                   synced, writes_left, last_op, failed, unapplied, mt_seq, wal_seq,
                   open_result, compactions, wcount, bench>>

\* flush that pushes the new table to the back of the list
FlushInsertAtBack(t) ==
    /\ pc[t] = "flush_insert"
    /\ SSTableOpen(dir[op[t].sst_path])
    /\ sstables' = Append(sstables, op[t].sst_path)
    /\ active_memtable' = MemTableNew
    /\ pc' = [pc EXCEPT ![t] = "flush_truncate"]
    /\ UNCHANGED <<max_memtable_size, wal_file, wal_writer, dir, compaction_running, clock, mt_lock,
                   wal_lock, callers, op, ret, cpc, to_compact, output_path, synced,
                   writes_left, last_op, failed, unapplied, mt_seq, wal_seq, ryw, epoch,
                   open_result, compactions, wcount, bench>>

\* lines 147-152: open the new table, insert it at the front of the list, clear
\* the memtable (the memtable lock is held throughout)
FlushInsert(t) ==
    /\ pc[t] = "flush_insert"
    /\ SSTableOpen(dir[op[t].sst_path])
    /\ sstables' = <<op[t].sst_path>> \o sstables
    /\ active_memtable' = MemTableNew
    /\ pc' = [pc EXCEPT ![t] = "flush_truncate"]
    /\ UNCHANGED <<max_memtable_size, wal_file, wal_writer, dir, compaction_running, clock, mt_lock,
                   wal_lock, callers, op, ret, cpc, to_compact, output_path, synced,
                   writes_left, last_op, failed, unapplied, mt_seq, wal_seq, ryw, epoch,
                   open_result, compactions, wcount, bench>>

\* flush that takes the log lock and leaves the log as it is
FlushTruncateSkipped(t) ==
    /\ pc[t] = "flush_truncate"
    /\ wal_lock = NoThread
    /\ wal_lock' = t
    /\ unapplied' = {}
    /\ pc' = [pc EXCEPT ![t] = "flush_check"]
    /\ UNCHANGED <<active_memtable, max_memtable_size, wal_file, wal_writer, sstables, dir,
                   compaction_running, clock, mt_lock, callers, op, ret, cpc, to_compact,
                   output_path, synced, writes_left, last_op, failed, mt_seq, wal_seq, ryw, epoch,
                   open_result, compactions, wcount, bench>>

\* lines 153-154: take the log lock and truncate the log
FlushTruncate(t) ==
    /\ pc[t] = "flush_truncate"
    /\ wal_lock = NoThread
    /\ wal_lock' = t
    /\ wal_file' \in WriterDrop(WalTruncate(wal_file), wal_writer, Len(wal_file))
    /\ wal_writer' = <<>>
    /\ unapplied' = {}
    /\ pc' = [pc EXCEPT ![t] = "flush_check"]
    /\ UNCHANGED <<active_memtable, max_memtable_size, sstables, dir, compaction_running,
                   clock, mt_lock, callers, op, ret, cpc, to_compact, output_path, synced,
                   writes_left, last_op, failed, mt_seq, wal_seq, ryw, epoch,
                   open_result, compactions, wcount, bench>>

\* check_compaction that starts a compaction without looking at the flag
FlushCheckIgnoringFlag(t) ==
    /\ pc[t] = "flush_check"
    /\ IF Len(sstables) >= CompactionTrigger
       THEN /\ compaction_running' = TRUE
            /\ cpc' = "snapshot"
            /\ compactions' = compactions + 1
       ELSE UNCHANGED <<compaction_running, cpc, compactions>>
    /\ wal_lock' = NoThread
    /\ mt_lock' = NoThread
    /\ pc' = [pc EXCEPT ![t] = "idle"]
    /\ op' = [op EXCEPT ![t] = NoOp]
    /\ UNCHANGED <<active_memtable, max_memtable_size, wal_file, wal_writer, sstables, dir, clock,
                   callers, ret, to_compact, output_path, synced, writes_left, last_op, failed,
                   unapplied, mt_seq, wal_seq, ryw, epoch, open_result, wcount, bench>>

\* a flush that returns without releasing the memtable lock and the log lock
FlushCheckKeepingLocks(t) ==
    /\ pc[t] = "flush_check"
    /\ IF ~compaction_running /\ Len(sstables) >= CompactionTrigger
       THEN /\ compaction_running' = TRUE
            /\ cpc' = "snapshot"
            /\ compactions' = compactions + 1
       ELSE UNCHANGED <<compaction_running, cpc, compactions>>
    /\ pc' = [pc EXCEPT ![t] = "idle"]
    /\ op' = [op EXCEPT ![t] = NoOp]
    /\ UNCHANGED <<active_memtable, max_memtable_size, wal_file, wal_writer, sstables, dir, clock,
                   mt_lock, wal_lock, callers, ret, to_compact, output_path, synced,
                   writes_left, last_op, failed, unapplied, mt_seq, wal_seq, ryw, epoch,
                   open_result, wcount, bench>>

\* lines 156-158 and check_compaction, lines 161-180: start the compaction
\* thread if none runs and the list holds CompactionTrigger tables; return,
\* which releases the log lock and the memtable lock
FlushCheck(t) ==
    /\ pc[t] = "flush_check"
    /\ IF ~compaction_running /\ Len(sstables) >= CompactionTrigger
       THEN /\ compaction_running' = TRUE
            /\ cpc' = "snapshot"
            /\ compactions' = compactions + 1
       ELSE UNCHANGED <<compaction_running, cpc, compactions>>
    /\ wal_lock' = NoThread
    /\ mt_lock' = NoThread
    /\ pc' = [pc EXCEPT ![t] = "idle"]
    /\ op' = [op EXCEPT ![t] = NoOp]
    /\ UNCHANGED <<active_memtable, max_memtable_size, wal_file, wal_writer, sstables, dir, clock,
                   callers, ret, to_compact, output_path, synced, writes_left, last_op, failed,
                   unapplied, mt_seq, wal_seq, ryw, epoch,
                   open_result, wcount, bench>>

\* check_compaction, lines 162-164, on its own: the load of the flag finds a
\* compaction running and check_compaction returns; flush has not returned yet
FlushCheckRunning(t) ==
    /\ pc[t] = "flush_check"
    /\ compaction_running
    /\ pc' = [pc EXCEPT ![t] = "flush_return"]
    /\ UNCHANGED <<active_memtable, max_memtable_size, wal_file, wal_writer, sstables, dir,
                   compaction_running, clock, mt_lock, wal_lock, callers, op, ret, cpc,
                   to_compact, output_path, synced, writes_left, last_op, failed,
                   unapplied, mt_seq, wal_seq, ryw, epoch, open_result, compactions,
                   wcount, bench>>

\* lines 156-158 on their own: flush returns Ok, which releases the log lock
\* and the memtable lock
FlushReturnOk(t) ==
    /\ pc[t] = "flush_return"
    /\ wal_lock' = NoThread
    /\ mt_lock' = NoThread
    /\ pc' = [pc EXCEPT ![t] = "idle"]
    /\ op' = [op EXCEPT ![t] = NoOp]
    /\ UNCHANGED <<active_memtable, max_memtable_size, wal_file, wal_writer, sstables, dir,
                   compaction_running, clock, callers, ret, cpc, to_compact, output_path,
                   synced, writes_left, last_op, failed, unapplied, mt_seq, wal_seq, ryw,
                   epoch, open_result, compactions, wcount, bench>>

(***************************************************************************)
(* check_compaction: the spawned thread                                    *)
(***************************************************************************)
\* lines 181-184: snapshot the table list
CompactSnapshot ==
    /\ cpc = "snapshot"
    /\ to_compact' = sstables
    /\ cpc' = "merge"
    /\ UNCHANGED <<active_memtable, max_memtable_size, wal_file, wal_writer, sstables, dir,
                   compaction_running, clock, mt_lock, wal_lock, callers, pc, op, ret,
                   output_path, synced, writes_left, last_op, failed, unapplied, mt_seq, wal_seq,
                   ryw, epoch,
                   open_result, compactions, wcount, bench>>

\* lines 186-196: name the output by the clock and merge the snapshot into it
CompactMerge ==
    /\ cpc = "merge"
    /\ output_path' = CompactPath(clock)
    /\ clock' = clock + 1
    /\ dir' = MapInsert(dir, CompactPath(clock),
                        Compact([i \in 1..Len(to_compact) |-> dir[to_compact[i]]]))
    /\ cpc' = "install"
    /\ UNCHANGED <<active_memtable, max_memtable_size, wal_file, wal_writer, sstables,
                   compaction_running, mt_lock, wal_lock, callers, pc, op, ret, to_compact,
                   synced, writes_left, last_op, failed, unapplied, mt_seq, wal_seq, ryw, epoch,
                   open_result, compactions, wcount, bench>>

\* an install that replaces the whole list by the output
CompactInstallReplacingList ==
    /\ cpc = "install"
    /\ SSTableOpen(dir[output_path])
    /\ sstables' = <<output_path>>
    /\ cpc' = "clear"
    /\ UNCHANGED <<active_memtable, max_memtable_size, wal_file, wal_writer, dir, compaction_running,
                   clock, mt_lock, wal_lock, callers, pc, op, ret, to_compact, output_path,
                   synced, writes_left, last_op, failed, unapplied, mt_seq, wal_seq, ryw, epoch,
                   open_result, compactions, wcount, bench>>

\* lines 198-204: open the output; under the table-list write lock drop the
\* snapshot's tables from the list and push the output
CompactInstall ==
    /\ cpc = "install"
    /\ SSTableOpen(dir[output_path])
    /\ sstables' = Append(Retain(sstables, Range(to_compact)), output_path)
    /\ cpc' = "clear"
    /\ UNCHANGED <<active_memtable, max_memtable_size, wal_file, wal_writer, dir, compaction_running,
                   clock, mt_lock, wal_lock, callers, pc, op, ret, to_compact, output_path,
                   synced, writes_left, last_op, failed, unapplied, mt_seq, wal_seq, ryw, epoch,
                   open_result, compactions, wcount, bench>>

\* line 207: clear the flag; the thread ends
CompactClear ==
    /\ cpc = "clear"
    /\ compaction_running' = FALSE
    /\ cpc' = "idle"
    /\ to_compact' = <<>>
    /\ output_path' = NoPath
    /\ compactions' = compactions - 1
    /\ UNCHANGED <<active_memtable, max_memtable_size, wal_file, wal_writer, sstables, dir, clock,
                   mt_lock, wal_lock, callers, pc, op, ret, synced, writes_left, last_op, failed,
                   unapplied, mt_seq, wal_seq, ryw, epoch, open_result, wcount, bench>>

\* lines 186-193: name the output by the clock; compact returns an error (an
\* I/O error of the environment) after SSTableBuilder::new created the output
\* file and n of its records were written
CompactMergeFail ==
    /\ cpc = "merge"
    /\ output_path' = CompactPath(clock)
    /\ clock' = clock + 1
    /\ LET files == [i \in 1..Len(to_compact) |-> dir[to_compact[i]]]
           heap == UNION {NextItems(files, i, 1) : i \in 0..(Len(files) - 1)}
           builder == MergeLoop(files, heap, None, BuilderNew)
       IN  \E n \in {0, Len(builder.data)} :
              dir' = MapInsert(dir, CompactPath(clock), Unfinished(builder, n))
    /\ cpc' = "failed"
    /\ UNCHANGED <<active_memtable, max_memtable_size, wal_file, wal_writer, sstables,
                   compaction_running, mt_lock, wal_lock, callers, pc, op, ret, to_compact,
                   synced, writes_left, last_op, failed, unapplied, mt_seq, wal_seq, ryw, epoch,
                   open_result, compactions, wcount, bench>>

\* lines 198 and 205: SSTable::open of the output returns an error (an I/O
\* error of the environment); the table list is left alone
CompactOpenFail ==
    /\ cpc = "install"
    /\ cpc' = "failed"
    /\ UNCHANGED <<active_memtable, max_memtable_size, wal_file, wal_writer, sstables, dir,
                   compaction_running, clock, mt_lock, wal_lock, callers, pc, op, ret,
                   to_compact, output_path, synced, writes_left, last_op, failed, unapplied,
                   mt_seq, wal_seq, ryw, epoch, open_result, compactions, wcount, bench>>

\* a failure path that ends the thread with the flag still set
CompactAbortKeepingFlag ==
    /\ cpc = "failed"
    /\ cpc' = "idle"
    /\ to_compact' = <<>>
    /\ output_path' = NoPath
    /\ compactions' = compactions - 1
    /\ UNCHANGED <<active_memtable, max_memtable_size, wal_file, wal_writer, sstables, dir, clock,
                   compaction_running, mt_lock, wal_lock, callers, pc, op, ret, synced,
                   writes_left, last_op, failed, unapplied, mt_seq, wal_seq, ryw, epoch,
                   open_result, wcount, bench>>

\* lines 193-195 and 205-207: after the error is printed, clear the flag; the
\* thread ends
CompactAbort ==
    /\ cpc = "failed"
    /\ compaction_running' = FALSE
    /\ cpc' = "idle"
    /\ to_compact' = <<>>
    /\ output_path' = NoPath
    /\ compactions' = compactions - 1
    /\ UNCHANGED <<active_memtable, max_memtable_size, wal_file, wal_writer, sstables, dir, clock,
                   mt_lock, wal_lock, callers, pc, op, ret, synced, writes_left, last_op, failed,
                   unapplied, mt_seq, wal_seq, ryw, epoch, open_result, wcount, bench>>

(***************************************************************************)
(* The environment                                                         *)
(***************************************************************************)
\* the operating system writes its cached pages of the table files back to
\* stable storage, at a time of its own choosing (the engine never calls fsync)
OsWriteback ==
    /\ synced # DOMAIN dir
    /\ synced' = DOMAIN dir
    /\ UNCHANGED <<active_memtable, max_memtable_size, wal_file, wal_writer, sstables, dir,
                   compaction_running, clock, mt_lock, wal_lock, callers, pc, op, ret,
                   cpc, to_compact, output_path, writes_left, last_op, failed, unapplied, mt_seq,
                   wal_seq, ryw, epoch,
                   open_result, compactions, wcount, bench>>

\* what an ended process leaves behind: no engine, no thread, no call (a run
\* has one crash)
Gone ==
    /\ epoch \in {"first", "reopened", "used"}
    /\ open_result' = "down"
    /\ wal_writer' = <<>>
    /\ active_memtable' = MemTableNew
    /\ sstables' = <<>>
    /\ compaction_running' = FALSE
    /\ mt_lock' = NoThread
    /\ wal_lock' = NoThread
    /\ pc' = [t \in Threads |-> "idle"]
    /\ op' = [t \in Threads |-> NoOp]
    /\ ret' = [t \in Threads |-> None]
    /\ cpc' = "idle"
    /\ to_compact' = <<>>
    /\ output_path' = NoPath
    /\ unapplied' = {}
    /\ ryw' = [t \in Threads |-> NoRyw]
    /\ compactions' = 0
    /\ mt_seq' = [k \in AllKeys |-> 0]
    /\ wcount' = [k \in AllKeys |-> 0]
    /\ UNCHANGED <<max_memtable_size, callers, synced, writes_left, last_op, failed, wal_seq, bench>>

\* the process crashes while a caller is in flush (lines 132-159): at its
\* start, after the table file is complete, after the insert, after the
\* truncate of the log
Crash ==
    /\ open_result = "ok"
    /\ \E t \in callers : pc[t] \in {"flush", "flush_insert", "flush_truncate", "flush_check"}
    /\ epoch' = "crashed_in_flush"
    /\ Gone
    /\ UNCHANGED <<wal_file, dir, clock>>

\* the process crashes while flush writes the table file (lines 144-145): the
\* file is there with the first n records, without filter, index and footer
CrashInBuild(t) ==
    /\ open_result = "ok"
    /\ pc[t] \in {"idle", "flush"}
    /\ mt_lock = NoThread
    /\ active_memtable.approximate_size # 0
    /\ LET builder == AddRecords(BuilderNew, MemTableIter(active_memtable))
       IN  \E n \in {0, Len(builder.data)} :
              dir' = MapInsert(dir, SstPath(clock), Unfinished(builder, n))
    /\ clock' = clock + 1
    /\ epoch' = "crashed_in_flush"
    /\ Gone
    /\ UNCHANGED wal_file

\* the process crashes while put appends its record (wal.rs lines 47-59): the
\* first n bytes of the record are in the file
CrashInAppend(t, key, value) ==
    /\ open_result = "ok"
    /\ Idle(t)
    /\ writes_left > 0
    /\ wal_lock = NoThread
    /\ LET frame == WalFrame(WalPut(key, value))
       IN  \E n \in {1, Len(frame) - 1} :
              wal_file' = wal_file \o SubSeq(wal_writer \o frame, 1, Len(wal_writer) + n)
    /\ epoch' = "crashed"
    /\ Gone
    /\ UNCHANGED <<dir, clock>>

\* Engine::open that leaves out the table files SSTable::open rejects
ReopenSkipping(size) ==
    /\ \A t \in callers : Idle(t)
    /\ cpc = "idle"
    /\ wal_file' \in WriterDrop(wal_file, wal_writer, Len(wal_file))
    /\ wal_writer' = <<>>
    /\ IF WalRecover(wal_file').ok
       THEN /\ open_result' = "ok"
            /\ active_memtable' = Replay(MemTableNew, WalRecover(wal_file').entries)
            /\ max_memtable_size' = size
            /\ sstables' = SortedDescending({p \in DOMAIN dir : SSTableOpen(dir[p])})
            /\ compaction_running' = FALSE
            /\ op' = [t \in Threads |-> NoOp]
            /\ ret' = [t \in Threads |-> None]
            /\ ryw' = [t \in Threads |-> NoRyw]
            /\ mt_seq' = [k \in AllKeys |-> 0]
            /\ wcount' = [k \in AllKeys |-> 0]
            /\ epoch' = IF epoch \in {"crashed_in_flush", "recovered"}
                        THEN "recovered" ELSE "reopened"
       ELSE /\ open_result' = "err"
            /\ UNCHANGED <<active_memtable, max_memtable_size, sstables,
                           compaction_running, op, ret, ryw, mt_seq, wcount, epoch>>
    /\ UNCHANGED <<dir, clock, mt_lock, wal_lock, callers, pc, cpc, to_compact,
                   output_path, synced, writes_left, last_op, failed, unapplied, wal_seq,
                   compactions, bench>>

\* the engine is dropped with no call and no compaction in flight, or its
\* process has crashed, and Engine::open (lines 28-68) opens the directory
\* again: it recovers and replays the log and opens every .sst file of the
\* directory, newest name first; an error of Wal::recover, and the first file
\* that SSTable::open rejects, make Engine::open return the error
Reopen(size) ==
    /\ \A t \in callers : Idle(t)
    /\ cpc = "idle"
    /\ wal_file' \in WriterDrop(wal_file, wal_writer, Len(wal_file))
    /\ wal_writer' = <<>>
    /\ IF WalRecover(wal_file').ok /\ \A p \in DOMAIN dir : SSTableOpen(dir[p])
       THEN /\ open_result' = "ok"
            /\ active_memtable' = Replay(MemTableNew, WalRecover(wal_file').entries)
            /\ max_memtable_size' = size
            /\ sstables' = SortedDescending(DOMAIN dir)
            /\ compaction_running' = FALSE
            /\ op' = [t \in Threads |-> NoOp]
            /\ ret' = [t \in Threads |-> None]
            /\ ryw' = [t \in Threads |-> NoRyw]
            /\ mt_seq' = [k \in AllKeys |-> 0]
            /\ wcount' = [k \in AllKeys |-> 0]
            /\ epoch' = IF epoch \in {"crashed_in_flush", "recovered"}
                        THEN "recovered" ELSE "reopened"
       ELSE /\ open_result' = "err"
            /\ UNCHANGED <<active_memtable, max_memtable_size, sstables,
                           compaction_running, op, ret, ryw, mt_seq, wcount, epoch>>
    /\ UNCHANGED <<dir, clock, mt_lock, wal_lock, callers, pc, cpc, to_compact,
                   output_path, synced, writes_left, last_op, failed, unapplied, wal_seq,
                   compactions, bench>>

Next ==
    \/ \E t \in callers, key \in Keys, value \in Values : PutAppend(t, key, value)
    \/ \E t \in callers : PutMem(t)
    \/ \E t \in callers, key \in Keys : DeleteAppend(t, key)
    \/ \E t \in callers : DeleteMem(t)
    \/ \E t \in callers, key \in Keys : GetMem(t, key)
    \/ \E t \in callers : GetSst(t)
    \/ \E t \in callers : FlushBegin(t)
    \/ \E t \in callers : FlushInsert(t)
    \/ \E t \in callers : FlushTruncate(t)
    \/ \E t \in callers : FlushCheck(t)
    \/ CompactSnapshot
    \/ CompactMerge
    \/ CompactInstall
    \/ CompactClear
    \/ \E size \in MemtableSizes : Reopen(size)

\* several callers
Spec == Init /\ [][Next]_vars

\* one caller
SpecSeq == InitSeq /\ [][Next]_vars

\* one caller on the used directory, and the operating system's writeback of
\* the table files
InitOs == Opened({1}, MaxWritesOs, UsedFiles, UsedHistory) /\ bench = NoBench
NextOs == Next \/ OsWriteback
SpecOs == InitOs /\ [][NextOs]_vars

\* one caller on the used directory, and compactions that fail on I/O errors
\* of the environment
InitFail == Opened({1}, MaxWritesFail, UsedFiles, UsedHistory) /\ bench = NoBench
NextFail ==
    \/ Next
    \/ CompactMergeFail
    \/ CompactOpenFail
    \/ CompactAbort
SpecFail == InitFail /\ [][NextFail]_vars

\* one caller on the used directory, and crashes of the process
InitCrash == Opened({1}, MaxWritesCrash, UsedFiles, UsedHistory) /\ bench = NoBench
NextCrash ==
    \/ Next
    \/ Crash
    \/ \E t \in callers : CrashInBuild(t)
    \/ \E t \in callers, key \in Keys, value \in Values : CrashInAppend(t, key, value)
SpecCrash == InitCrash /\ [][NextCrash]_vars

\* one caller on the used directory, with keys and values that include the
\* empty byte string
InitEdge == Opened({1}, MaxWritesEdge, UsedFiles, UsedHistory) /\ bench = NoBench
NextEdge ==
    \/ \E t \in callers, key \in EdgeKeys, value \in EdgeValues : PutAppend(t, key, value)
    \/ \E t \in callers : PutMem(t)
    \/ \E t \in callers, key \in EdgeKeys : DeleteAppend(t, key)
    \/ \E t \in callers : DeleteMem(t)
    \/ \E t \in callers, key \in EdgeKeys : GetMem(t, key)
    \/ \E t \in callers : GetSst(t)
    \/ \E t \in callers : FlushBegin(t)
    \/ \E t \in callers : FlushInsert(t)
    \/ \E t \in callers : FlushTruncate(t)
    \/ \E t \in callers : FlushCheck(t)
    \/ CompactSnapshot
    \/ CompactMerge
    \/ CompactInstall
    \/ CompactClear
    \/ \E size \in MemtableSizes : Reopen(size)
SpecEdge == InitEdge /\ [][NextEdge]_vars

\* one caller on an empty directory, and appends to the log that fail
InitAppendFail == Opened({1}, MaxWritesAppendFail, NoFiles, [k \in AllKeys |-> None]) /\ bench = NoBench
NextAppendFail ==
    \/ \E t \in callers, key \in Keys, value \in Values : PutAppend(t, key, value)
    \/ \E t \in callers : PutMem(t)
    \/ \E t \in callers, key \in Keys : DeleteAppend(t, key)
    \/ \E t \in callers : DeleteMem(t)
    \/ \E t \in callers, key \in Keys : GetMem(t, key)
    \/ \E t \in callers : GetSst(t)
    \/ \E t \in callers : FlushBegin(t)
    \/ \E t \in callers : FlushInsert(t)
    \/ \E t \in callers : FlushTruncate(t)
    \/ \E t \in callers : FlushCheck(t)
    \/ \E size \in MemtableSizes : Reopen(size)
    \/ \E t \in callers, key \in Keys, value \in Values : PutAppendFail(t, key, value)
    \/ \E t \in callers, key \in Keys : DeleteAppendFail(t, key)
SpecAppendFail == InitAppendFail /\ [][NextAppendFail]_vars

\* one caller on the used directory; the return of flush is a step of its own
\* after check_compaction has looked at the flag
InitCheck == Opened({1}, MaxWritesCheck, UsedFiles, UsedHistory) /\ max_memtable_size = 2 /\ bench = NoBench
NextCheck ==
    \/ \E t \in callers, key \in Keys : PutAppend(t, key, <<7>>)
    \/ \E t \in callers : PutMem(t)
    \/ \E t \in callers : FlushBegin(t)
    \/ \E t \in callers : FlushInsert(t)
    \/ \E t \in callers : FlushTruncate(t)
    \/ \E t \in callers : FlushCheck(t)
    \/ \E t \in callers : FlushCheckRunning(t)
    \/ \E t \in callers : FlushReturnOk(t)
    \/ CompactSnapshot
    \/ CompactMerge
    \/ CompactInstall
    \/ CompactClear
SpecCheck == InitCheck /\ [][NextCheck]_vars

\* several callers on the used directory under fair scheduling: a caller that
\* is inside a call goes on whenever the lock it needs is free, and the
\* compaction thread, once spawned, runs; nothing obliges a caller to start a call
InitLive == Opened(Threads, MaxWritesLive, UsedFiles, UsedHistory) /\ max_memtable_size = 2 /\ bench = NoBench
Continue(t) ==
    \/ PutMem(t)
    \/ DeleteMem(t)
    \/ GetSst(t)
    \/ pc[t] = "flush" /\ FlushBegin(t)
    \/ FlushInsert(t)
    \/ FlushTruncate(t)
    \/ FlushCheck(t)
Compaction ==
    \/ CompactSnapshot
    \/ CompactMerge
    \/ CompactInstall
    \/ CompactClear
    \/ CompactMergeFail
    \/ CompactOpenFail
    \/ CompactAbort
NextLive ==
    \/ \E t \in callers : PutAppend(t, <<1>>, <<7>>)
    \/ \E t \in callers : DeleteAppend(t, <<1>>)
    \/ \E t \in callers : GetMem(t, <<2>>)
    \/ \E t \in callers : Idle(t) /\ FlushBegin(t)
    \/ \E t \in callers : Continue(t)
    \/ Compaction
\* the spawned thread takes its next step, whichever of the steps of
\* Compaction its position and the environment make it
CompactionRuns ==
    /\ cpc # "idle"
    /\ cpc' \in {"merge", "install", "clear", "failed", "idle"} \ {cpc}
SpecLive ==
    /\ InitLive
    /\ [][NextLive]_vars
    /\ \A t \in Threads : WF_vars(Continue(t))
    /\ WF_cpc(CompactionRuns)

(***************************************************************************)
(* The components used on their own: no engine call is made                *)
(***************************************************************************)
engine_vars == <<active_memtable, max_memtable_size, wal_file, wal_writer, sstables, dir,
                 compaction_running, clock, mt_lock, wal_lock, callers, pc, op, ret,
                 cpc, to_compact, output_path, synced, writes_left, last_op, failed,
                 unapplied, mt_seq, wal_seq, ryw, epoch, open_result, compactions, wcount>>

NoEngine == Opened({1}, 0, NoFiles, [k \in AllKeys |-> None])

(***************************************************************************)
(* A table built from a memtable and read (sstable.rs tests, lines 377-443)*)
(***************************************************************************)
\* the keys put, deleted and looked up; <<200>> is above the filter's first bytes
TableKeySet == {<<1>>, <<2>>, <<3>>, <<4>>, <<200>>}
\* the sparse intervals tables are built with
SparseIntervals == {1, 2, 3}

InitTable == NoEngine /\ bench = [stage |-> "memtable", mt |-> MemTableNew, ops |-> 0]

\* memtable.put(key, value)
TablePut(key, value) ==
    /\ bench.stage = "memtable"
    /\ bench.ops < MaxTableOps
    /\ bench' = [bench EXCEPT !.mt = MemTablePut(@, key, value), !.ops = @ + 1]
    /\ UNCHANGED engine_vars

\* memtable.delete(key)
TableDelete(key) ==
    /\ bench.stage = "memtable"
    /\ bench.ops < MaxTableOps
    /\ bench' = [bench EXCEPT !.mt = MemTableDelete(@, key), !.ops = @ + 1]
    /\ UNCHANGED engine_vars

\* memtable.clear()
TableClear ==
    /\ bench.stage = "memtable"
    /\ bench.ops < MaxTableOps
    /\ bench' = [bench EXCEPT !.mt = MemTableClear(@), !.ops = @ + 1]
    /\ UNCHANGED engine_vars

\* SSTableBuilder::new(path, sparse_interval).build(&memtable), then
\* SSTable::open(path); colliding are the keys outside the memtable that the
\* hash function sends to bits the memtable's keys set
TableBuild(sparse_interval, colliding) ==
    /\ bench.stage = "memtable"
    /\ colliding \cap DOMAIN bench.mt.entries = {}
    /\ LET file == Finish(AddRecords(BuilderWith(sparse_interval, colliding),
                                     MemTableIter(bench.mt)))
       IN  /\ SSTableOpen(file)
           /\ bench' = [stage |-> "table", mt |-> bench.mt, file |-> file,
                        key |-> <<>>, result |-> Ok(None)]
    /\ UNCHANGED engine_vars

\* sstable.get(key)
TableGet(key) ==
    /\ bench.stage \in {"table", "got"}
    /\ \E result \in SSTableGetResults(bench.file, key) :
          bench' = [bench EXCEPT !.stage = "got", !.key = key, !.result = result]
    /\ UNCHANGED engine_vars

\* a change to bytes of one region of the table file, of the same length, the
\* footer left alone: a record of the data region gets another key or value,
\* the filter another bit, an entry of the index another offset; then
\* SSTable::open(path)
TableSpoil ==
    /\ bench.stage = "table"
    /\ LET file == bench.file
           records == {[key |-> k, entry |-> e] :
                          k \in TableKeySet, e \in {Value(<<7>>), Value(<<9>>), Tombstone}}
           spoiled ==
               {[file EXCEPT !.data[i] = r] :
                    i \in 1..Len(file.data),
                    r \in {x \in records : \E j \in 1..Len(file.data) :
                                               /\ x # file.data[j]
                                               /\ RecordLen(x) = RecordLen(file.data[j])}}
               \cup {[file EXCEPT !.bloom.added = @ \cup {k}] : k \in TableKeySet}
               \cup {[file EXCEPT !.index[k] = @ + 1] : k \in DOMAIN file.index}
       IN  \E f \in spoiled :
              /\ f # file
              /\ DataLen(f.data) = DataLen(file.data)
              /\ bench' = [stage |-> "spoiled", mt |-> bench.mt, file |-> f,
                           opened |-> SSTableOpen(f)]
    /\ UNCHANGED engine_vars

\* the length of a finished table file: the three regions and the footer
FileLen(file) == DataLen(file.data) + BloomLen + IndexLen(IndexItems(file.index)) + 36

\* a read of a BufReader with an empty buffer on a handle at byte offset at:
\* the file is shorter than the buffer (8192 bytes), so the read takes all
\* that is left, the records from offset at on and whether bytes of the
\* filter, index and footer follow them
ReadToEnd(file, at) ==
    [records |-> IF at >= DataLen(file.data) THEN <<>>
                 ELSE LET i == CHOOSE j \in 1..Len(file.data) : OffsetOf(file.data, j) = at
                      IN  SubSeq(file.data, i, Len(file.data)),
     tail |-> at < FileLen(file)]

\* SSTable::iter, lines 298-315: try_clone gives a handle that shares the file
\* offset with SSTable.file and with every other clone; the footer's
\* bloom_offset is read and the offset is set back to 0
IterOpen ==
    /\ bench.stage = "table"
    /\ bench' = [stage |-> "iter", mt |-> bench.mt, file |-> bench.file,
                 offset |-> 0,
                 it |-> [filled |-> FALSE, records |-> <<>>, tail |-> FALSE,
                         current_pos |-> 0,
                         data_end_offset |-> bench.file.footer[1].bloom_offset],
                 out |-> <<>>, ended |-> "no", reader |-> "idle", shared |-> FALSE]
    /\ UNCHANGED engine_vars

\* RecordIterator::next, lines 325-363: None at data_end_offset; otherwise the
\* next record of the reader's buffer, which the first call fills from the
\* shared offset.  Past the records the bytes of the filter are decoded as a
\* record, which is yielded or ends in the error of read_exact, as the bits
\* of the filter have it; at the end of the file read_exact returns the error
IterNext ==
    /\ bench.stage = "iter"
    /\ bench.ended = "no"
    /\ LET it == bench.it
           buf == IF it.filled THEN [records |-> it.records, tail |-> it.tail]
                  ELSE ReadToEnd(bench.file, bench.offset)
           offset == IF it.filled THEN bench.offset ELSE FileLen(bench.file)
       IN  IF it.current_pos >= it.data_end_offset
           THEN bench' = [bench EXCEPT !.ended = "none"]
           ELSE IF buf.records # <<>>
           THEN bench' = [bench EXCEPT
                            !.offset = offset,
                            !.it = [filled |-> TRUE, records |-> Tail(buf.records),
                                    tail |-> buf.tail,
                                    current_pos |-> it.current_pos + RecordLen(Head(buf.records)),
                                    data_end_offset |-> it.data_end_offset],
                            !.out = Append(@, Head(buf.records))]
           ELSE \E ended \in (IF buf.tail THEN {"err", "beyond"} ELSE {"err"}) :
                   bench' = [bench EXCEPT !.offset = offset, !.ended = ended]
    /\ UNCHANGED engine_vars

\* SSTable::get of another thread on the same reader, lines 258-261: its
\* try_clone shares the file offset, which its seek sets to the block offset
ReaderSeek(key) ==
    /\ bench.stage = "iter"
    /\ bench.ended = "no"
    /\ bench.reader = "idle"
    /\ BloomContains(bench.file.bloom, key)
    /\ LET range == {k \in DOMAIN bench.file.index : BytesLeq(k, key)}
       IN  /\ range # {}
           /\ LET last == CHOOSE k \in range : \A j \in range : BytesLeq(j, k)
              IN  bench' = [bench EXCEPT !.offset = bench.file.index[last],
                                         !.reader = "seeked", !.shared = TRUE]
    /\ UNCHANGED engine_vars

\* SSTable::get of another thread, lines 262-266: the first read of its
\* BufReader takes all that is left of the file from the shared offset
ReaderFill ==
    /\ bench.stage = "iter"
    /\ bench.reader = "seeked"
    /\ bench' = [bench EXCEPT !.offset = FileLen(bench.file), !.reader = "idle"]
    /\ UNCHANGED engine_vars

NextTable ==
    \/ \E key \in TableKeySet, value \in Values : TablePut(key, value)
    \/ \E key \in TableKeySet : TableDelete(key)
    \/ TableClear
    \/ \E sparse_interval \in SparseIntervals, colliding \in {{}, TableKeySet \ DOMAIN bench.mt.entries} :
          TableBuild(sparse_interval, colliding)
    \/ TableSpoil
    \/ IterOpen
    \/ IterNext
    \/ \E key \in TableKeySet : ReaderSeek(key)
    \/ ReaderFill
    \/ \E key \in TableKeySet : TableGet(key)

SpecTable == InitTable /\ [][NextTable]_vars

(***************************************************************************)
(* bloom.rs: the filter on its bit vector (bloom.rs tests, lines 92-135)   *)
(***************************************************************************)
\* the byte string as a number (base 256, least significant byte first)
RECURSIVE BytesNumber(_)
BytesNumber(b) == IF b = <<>> THEN 0 ELSE Head(b) + 256 * BytesNumber(Tail(b))

\* BloomFilter::hash: DefaultHasher over the key and i.  The hasher's values
\* are not reproduced; hasher selects one deterministic function of (key, i)
\* out of a family.
Hash(hasher, key, i) == hasher * (BytesNumber(key) + Len(key)) + (hasher + i) * (i + 1)

\* BloomFilter::new, lines 26-32, with num_bytes and k as computed on lines 23-26
BloomFilterNew(num_bytes, k) ==
    [bits |-> [n \in 1..num_bytes |-> 0], num_hashes |-> k, num_bits |-> num_bytes * 8]

\* bits[bit_pos / 8] & (1 << (bit_pos % 8)) != 0
BitTest(bits, bit_pos) == (bits[(bit_pos \div 8) + 1] \div (2 ^ (bit_pos % 8))) % 2 = 1
\* bits[bit_pos / 8] |= 1 << (bit_pos % 8)
BitSet(bits, bit_pos) ==
    IF BitTest(bits, bit_pos) THEN bits
    ELSE [bits EXCEPT ![(bit_pos \div 8) + 1] = @ + 2 ^ (bit_pos % 8)]

\* BloomFilter::add, the loop from i on
RECURSIVE AddFrom(_, _, _, _)
AddFrom(f, key, hasher, i) ==
    IF i >= f.num_hashes THEN f
    ELSE LET h == Hash(hasher, key, i)
             bit_pos == h % f.num_bits
         IN  AddFrom([f EXCEPT !.bits = BitSet(@, bit_pos)], key, hasher, i + 1)

\* BloomFilter::add
BloomFilterAdd(f, key, hasher) == AddFrom(f, key, hasher, 0)

\* BloomFilter::contains
BloomFilterContains(f, key, hasher) ==
    IF f.num_bits = 0 THEN FALSE
    ELSE \A i \in 0..(f.num_hashes - 1) : BitTest(f.bits, Hash(hasher, key, i) % f.num_bits)

\* BloomFilter::serialize
BloomFilterSerialize(f) == ToLe32(f.num_hashes) \o ToLe32(f.num_bits) \o f.bits

\* deserialize that reads the two header fields in the other order
BloomFilterDeserializeSwapped(data) ==
    [bits |-> SubSeq(data, 9, Len(data)),
     num_hashes |-> FromLe32(SubSeq(data, 5, 8)),
     num_bits |-> FromLe32(SubSeq(data, 1, 4))]

\* BloomFilter::deserialize
BloomFilterDeserialize(data) ==
    [bits |-> SubSeq(data, 9, Len(data)),
     num_hashes |-> FromLe32(SubSeq(data, 1, 4)),
     num_bits |-> FromLe32(SubSeq(data, 5, 8))]

\* the filters made: bytes of the bit vector, hash functions, hasher
FilterBytes == {1, 2}
FilterHashes == {1, 2, 3}
Hashers == {1, 3, 5}

\* added: the keys added so far; loaded: the filter went through
\* serialize and deserialize
InitBloom ==
    /\ NoEngine
    /\ \E num_bytes \in FilterBytes, k \in FilterHashes, hasher \in Hashers :
          bench = [stage |-> "filter", filter |-> BloomFilterNew(num_bytes, k),
                   hasher |-> hasher, added |-> {}, adds |-> 0, loaded |-> FALSE]

\* filter.add(key)
FilterAdd(key) ==
    /\ bench.stage = "filter"
    /\ bench.adds < MaxFilterAdds
    /\ bench' = [bench EXCEPT !.filter = BloomFilterAdd(@, key, bench.hasher),
                              !.added = @ \cup {key}, !.adds = @ + 1]
    /\ UNCHANGED engine_vars

\* BloomFilter::deserialize(&filter.serialize()), as SSTableBuilder::finish
\* and SSTable::open do
FilterReload ==
    /\ bench.stage = "filter"
    /\ bench' = [bench EXCEPT !.filter = BloomFilterDeserialize(BloomFilterSerialize(@)),
                              !.loaded = TRUE]
    /\ UNCHANGED engine_vars

NextBloom ==
    \/ \E key \in TableKeySet : FilterAdd(key)
    \/ FilterReload

SpecBloom == InitBloom /\ [][NextBloom]_vars

(***************************************************************************)
(* wal.rs: a log appended to, truncated and recovered (wal.rs tests)       *)
(***************************************************************************)
LogEntries ==
    {WalPut(key, value) : key \in EdgeKeys, value \in EdgeValues}
        \cup {WalDelete(key) : key \in EdgeKeys}

\* the bytes of a sequence of entries
RECURSIVE Frames(_)
Frames(entries) ==
    IF entries = <<>> THEN <<>> ELSE WalFrame(Head(entries)) \o Frames(Tail(entries))

\* appended: the entries appended since the last truncate; intact: the file
\* holds what the log wrote; truncated: truncate was called
InitLog ==
    /\ NoEngine
    /\ bench = [stage |-> "log", bytes |-> <<>>, appended |-> <<>>, ops |-> 0,
                intact |-> TRUE, truncated |-> FALSE, recovered |-> WalRecover(<<>>)]

\* wal.append(&entry)
LogAppend(entry) ==
    /\ bench.stage = "log"
    /\ bench.intact
    /\ bench.ops < MaxLogOps
    /\ bench' = [bench EXCEPT !.bytes = WalAppend(@, entry),
                              !.appended = Append(@, entry), !.ops = @ + 1]
    /\ UNCHANGED engine_vars

\* wal.truncate()
LogTruncate ==
    /\ bench.stage = "log"
    /\ bench.intact
    /\ bench.ops < MaxLogOps
    /\ bench' = [bench EXCEPT !.bytes = WalTruncate(@), !.appended = <<>>,
                              !.ops = @ + 1, !.truncated = TRUE]
    /\ UNCHANGED engine_vars

\* the environment: the file loses its tail (a write torn by a crash), n bytes stay
LogCut(n) ==
    /\ bench.stage = "log"
    /\ bench.intact
    /\ n < Len(bench.bytes)
    /\ bench' = [bench EXCEPT !.bytes = SubSeq(@, 1, n), !.intact = FALSE]
    /\ UNCHANGED engine_vars

\* the environment: the type byte of the i-th record becomes 2
LogSpoil(i) ==
    /\ bench.stage = "log"
    /\ bench.intact
    /\ i \in 1..Len(bench.appended)
    /\ bench' = [bench EXCEPT
                    !.bytes[Len(Frames(SubSeq(bench.appended, 1, i - 1))) + 1] = 2,
                    !.intact = FALSE]
    /\ UNCHANGED engine_vars

\* Wal::recover(path)
LogRecover ==
    /\ bench.stage = "log"
    /\ bench' = [bench EXCEPT !.stage = "recovered", !.recovered = WalRecover(bench.bytes)]
    /\ UNCHANGED engine_vars

NextLog ==
    \/ \E entry \in LogEntries : LogAppend(entry)
    \/ LogTruncate
    \/ \E n \in 0..(Len(bench.bytes) - 1) : LogCut(n)
    \/ \E i \in 1..MaxLogOps : LogSpoil(i)
    \/ LogRecover

SpecLog == InitLog /\ [][NextLog]_vars

(***************************************************************************)
(* The claims                                                              *)
(***************************************************************************)
\* a completed get of caller t
Got(t) == Idle(t) /\ op[t].kind = "get"

\* the record of key in the newest table of the live list that holds the key
RECURSIVE NewestRecord(_, _)
NewestRecord(ssts, key) ==
    IF ssts = <<>> THEN [held |-> FALSE, entry |-> Tombstone]
    ELSE LET hits == {i \in 1..Len(dir[Head(ssts)].data) : dir[Head(ssts)].data[i].key = key}
         IN  IF hits # {}
             THEN [held |-> TRUE, entry |-> dir[Head(ssts)].data[CHOOSE i \in hits : TRUE].entry]
             ELSE NewestRecord(Tail(ssts), key)

\* C1 (recency): with one caller on one open engine, a completed get(k) has
\* returned the value of the last put on k, and not-found if the last write
\* on k was a delete or k was never written.
C1_Recency ==
    \A t \in callers :
        (epoch = "first" /\ Got(t)) => ret[t] = last_op[op[t].key]

\* C2 (tombstone shadowing): a completed get(k) that found k absent from the
\* memtable, while the newest live table holding k holds a tombstone for it,
\* has returned not-found.
C2_TombstoneShadowing ==
    \A t \in callers :
        (/\ Got(t)
         /\ op[t].key \notin DOMAIN active_memtable.entries
         /\ NewestRecord(sstables, op[t].key).held
         /\ NewestRecord(sstables, op[t].key).entry.tomb)
        => ret[t] = None

\* C3 (persistence): after the engine was dropped with no call in flight and
\* opened again, a get(k) returns the effect of the last write on k made
\* before the drop.
C3_Persistence ==
    \A t \in callers :
        (epoch = "reopened" /\ Got(t)) => ret[t] = last_op[op[t].key]

\* C4 (truncation loses nothing): whenever flush truncates the log, every
\* record in the log has already been applied to the memtable.
C4_TruncateAppliedOnly ==
    [][\A t \in callers :
          (pc[t] = "flush_truncate" /\ pc'[t] = "flush_check") => unapplied = {}]_vars

\* C5 (log replay idempotence): whenever no call is in flight, replaying the
\* records of active.wal in stored order into an empty memtable yields the
\* engine's memtable.
C5_ReplayIdempotence ==
    (\A t \in callers : Idle(t))
    => /\ WalRecover(wal_file).ok
       /\ Replay(MemTableNew, WalRecover(wal_file).entries) = active_memtable

\* C6 (durable before truncate): once a flush has truncated the log, the
\* table file it wrote is on stable storage.
C6_TruncateAfterDurable ==
    \A t \in callers : pc[t] = "flush_check" => op[t].sst_path \in synced

\* C7 (log order is apply order): every write is applied to the memtable
\* after all writes of the same key whose log records precede its own, and
\* before none of them.
C7_ApplyInLogOrder ==
    [][\A t \in callers :
          (pc[t] \in {"put_mt", "delete_mt"} /\ pc'[t] # pc[t])
          => op[t].seq > mt_seq[op[t].key]]_vars

\* C8 (read your writes): a get(k) issued by a caller right after its own
\* put(k, v) or delete(k), with no other caller writing k, has returned v,
\* respectively not-found.
C8_ReadYourWrites ==
    \A t \in callers :
        (Got(t) /\ ryw[t].valid) => ret[t] = ryw[t].expect

\* C9 (flush keeps the mapping): for every key, get on the state after a
\* flush has moved the memtable into a table equals get on the state before.
C9_FlushKeepsMapping ==
    [][\A t \in callers :
          (pc[t] = "flush_insert" /\ pc'[t] = "flush_truncate")
          => \A k \in Keys :
                EngineGet(active_memtable', sstables', dir', k)
                  = EngineGet(active_memtable, sstables, dir, k)]_vars

\* C10 (install keeps the mapping): for every key, get right after a
\* compaction output is installed equals get right before.
C10_InstallKeepsMapping ==
    [][(cpc = "install" /\ cpc' = "clear")
       => \A k \in Keys :
             EngineGet(active_memtable', sstables', dir', k)
               = EngineGet(active_memtable, sstables, dir, k)]_vars

\* the keys of a table file, and the record a table holds for a key
TableKeys(file) == {file.data[i].key : i \in 1..Len(file.data)}
RecordOf(file, k) == file.data[CHOOSE i \in 1..Len(file.data) : file.data[i].key = k].entry

StrictlyAscending(data) ==
    \A i \in 1..(Len(data) - 1) : BytesLess(data[i].key, data[i + 1].key)

\* the files a running compaction merges, newest first
Inputs == [i \in 1..Len(to_compact) |-> dir[to_compact[i]]]

\* the first (newest) input that holds key k
NewestInput(k) == Inputs[CHOOSE i \in 1..Len(Inputs) :
                            /\ k \in TableKeys(Inputs[i])
                            /\ \A j \in 1..(i - 1) : k \notin TableKeys(Inputs[j])]

C13_OneCompaction ==
    /\ compactions <= 1
    /\ compactions = 1 => compaction_running

\* a flush evaluates the compaction policy while a compaction is running, with
\* enough tables in the list to start one
C13_Witness ==
    /\ compactions = 1
    /\ Len(sstables) >= CompactionTrigger
    /\ \E t \in callers : pc[t] = "flush_check"

\* position of table p in list ssts
Pos(ssts, p) == CHOOSE i \in 1..Len(ssts) : ssts[i] = p

\* C14 (install frame): the install step removes from the list exactly the
\* tables of the snapshot and adds the output as the last element; the tables
\* flushed after the snapshot stay, in their order and ahead of the output;
\* and no step leaves a list without the snapshot's tables and without the
\* output.
C14_InstallFrame ==
    [][/\ (cpc = "install" /\ cpc' = "clear")
          => /\ Range(sstables') = (Range(sstables) \ Range(to_compact)) \cup {output_path}
             /\ Len(sstables') = Cardinality(Range(sstables'))
             /\ sstables'[Len(sstables')] = output_path
             /\ \A i, j \in 1..Len(sstables) :
                   (/\ i < j
                    /\ sstables[i] \notin Range(to_compact)
                    /\ sstables[j] \notin Range(to_compact))
                   => Pos(sstables', sstables[i]) < Pos(sstables', sstables[j])
       /\ (to_compact' # <<>> /\ Range(to_compact') \cap Range(sstables') = {})
          => output_path' \in Range(sstables')]_vars

\* an output was installed behind a table flushed after the snapshot
C14_Witness ==
    /\ cpc = "clear"
    /\ Len(sstables) >= 2
    /\ sstables[Len(sstables)] = output_path

\* C15 (failed compaction): when a compaction that failed ends, the flag is
\* cleared, the tables of its snapshot are still in the unchanged list, and
\* its output file is gone from the data directory.
C15_FailureDiscardsOutput ==
    [][(cpc = "failed" /\ cpc' = "idle")
       => /\ ~compaction_running'
          /\ sstables' = sstables
          /\ Range(to_compact) \subseteq Range(sstables')
          /\ output_path \notin DOMAIN dir']_vars

\* C16 (orphan tolerance): Engine::open succeeds on a directory in which a
\* failed compaction left a .compact.sst file that SSTable::open rejects.
C16_OrphanTolerance ==
    (\E p \in DOMAIN dir : p.compact /\ ~SSTableOpen(dir[p])) => open_result = "ok"

\* every write logged since the engine was opened is a put, each of a key of its own
PutsOfDistinctKeys ==
    \A k \in Keys : wcount[k] = 0 \/ (wcount[k] = 1 /\ last_op[k].some)

C18_DeleteAbsentThenGet ==
    \A t \in callers :
        (Got(t) /\ ryw[t].valid /\ ryw[t].absent /\ ~ryw[t].expect.some)
        => ret[t] = None

\* C19 (automatic flush): with one caller, a put or delete that leaves the
\* memtable below the threshold returns without creating a file; one that
\* fills it goes through flush, which writes a new table file and is not
\* skipped, and returns with the file in the directory and the memtable
\* empty; and when a write returns, every key whose last write was a put reads
\* back its value.
C19_AutomaticFlush ==
    [][\A t \in callers :
          LET writing == op[t].kind \in {"put", "delete"}
          IN  /\ (pc[t] \in {"put_mt", "delete_mt"} /\ pc'[t] = "idle")
                 => /\ DOMAIN dir' = DOMAIN dir
                    /\ active_memtable'.approximate_size < max_memtable_size
              /\ (pc[t] \in {"put_mt", "delete_mt"} /\ pc'[t] = "flush")
                 => active_memtable'.approximate_size >= max_memtable_size
              /\ pc[t] = "flush" => pc'[t] \in {"flush", "flush_insert"}
              /\ (pc[t] = "flush" /\ pc'[t] = "flush_insert")
                 => /\ op'[t].sst_path \notin DOMAIN dir
                    /\ op'[t].sst_path \in DOMAIN dir'
              /\ (writing /\ pc[t] = "flush_check" /\ pc'[t] = "idle")
                 => /\ op[t].sst_path \in DOMAIN dir'
                    /\ active_memtable' = MemTableNew
              /\ (writing /\ pc[t] # "idle" /\ pc'[t] = "idle" /\ epoch = "first")
                 => \A k \in Keys :
                       last_op[k].some
                       => EngineGet(active_memtable', sstables', dir', k) = last_op[k]]_vars

\* a write that filled the memtable has flushed, with earlier tables in the list
C19_Witness ==
    \E t \in callers :
        /\ pc[t] = "flush_check"
        /\ op[t].kind \in {"put", "delete"}
        /\ active_memtable = MemTableNew
        /\ Len(sstables) >= 2

\* C20 (ordered flush): the table file a flush has built holds exactly one
\* record per key of the memtable, with the memtable's entry, in strictly
\* ascending key order, and SSTable::open accepts it (the stored checksum
\* equals the one recomputed over the data, filter and index regions).
C20_OrderedFlush ==
    \A t \in callers :
        pc[t] = "flush_insert" =>
            LET file == dir[op[t].sst_path]
            IN  /\ TableKeys(file) = DOMAIN active_memtable.entries
                /\ Len(file.data) = Cardinality(DOMAIN active_memtable.entries)
                /\ \A i \in 1..Len(file.data) :
                      file.data[i].entry = active_memtable.entries[file.data[i].key]
                /\ StrictlyAscending(file.data)
                /\ SSTableOpen(file)

\* a flush has built a table of two records, one of them a tombstone
C20_Witness ==
    \E t \in callers :
        /\ pc[t] = "flush_insert"
        /\ Len(dir[op[t].sst_path].data) = 2
        /\ \E i \in 1..2 : dir[op[t].sst_path].data[i].entry.tomb

\* C21 (table round trip): on a table built from a memtable with any sparse
\* interval, get returns the memtable's value for a key holding a value and
\* Ok(None) for a tombstoned key and for a key that is not in the memtable
C21_TableRoundTrip ==
    bench.stage = "got" =>
        LET entries == bench.mt.entries
            key == bench.key
        IN  bench.result = Ok(IF key \in DOMAIN entries /\ ~entries[key].tomb
                              THEN Some(entries[key].v) ELSE None)

\* C22 (filter soundness): every key added to a filter is answered for by
\* contains, after any further adds and after serialize and deserialize
C22_FilterSound ==
    bench.stage = "filter" =>
        \A key \in bench.added : BloomFilterContains(bench.filter, key, bench.hasher)

\* more keys than the one-byte bit vector has room for were added, before and
\* after a reload
C22_Witness ==
    /\ bench.stage = "filter"
    /\ bench.loaded
    /\ Cardinality(bench.added) >= 3
    /\ Len(bench.filter.bits) = 1
    /\ \E key \in TableKeySet \ bench.added :
          BloomFilterContains(bench.filter, key, bench.hasher)

\* the file is the frames of the first j appended entries, back to back
EndsAtRecord(j) == bench.bytes = Frames(SubSeq(bench.appended, 1, j))

\* C23 (recovery of the log): recover returns the full list of records exactly
\* when the file is a sequence of whole records (an empty file gives the empty
\* list); a file that ends inside a record, or holds a type byte other than
\* 0 and 1, gives an error and no records
C23_RecoverWholeRecords ==
    bench.stage = "recovered" =>
        /\ bench.recovered.ok <=> \E j \in 0..Len(bench.appended) : EndsAtRecord(j)
        /\ \A j \in 0..Len(bench.appended) :
              EndsAtRecord(j) => bench.recovered.entries = SubSeq(bench.appended, 1, j)
        /\ ~bench.recovered.ok => bench.recovered.entries = <<>>

\* a file of two records cut inside the second one was recovered
C23_Witness ==
    /\ bench.stage = "recovered"
    /\ Len(bench.appended) = 2
    /\ Len(bench.bytes) > Len(WalFrame(bench.appended[1]))
    /\ ~bench.intact
    /\ ~bench.recovered.ok

\* C24 (redo-log round trip): after any sequence of append and truncate,
\* recover returns exactly the entries appended since the last truncate, in
\* order; right after a truncate it returns the empty list
C24_LogRoundTrip ==
    (bench.stage = "recovered" /\ bench.intact) =>
        bench.recovered = [ok |-> TRUE, entries |-> bench.appended]

\* a log appended to, truncated and appended to again was recovered
C24_Witness ==
    /\ bench.stage = "recovered"
    /\ bench.intact
    /\ bench.truncated
    /\ bench.ops = MaxLogOps
    /\ Len(bench.appended) = 1

\* the directory holds a log that Wal::recover rejects or a table file that
\* SSTable::open rejects
BadDirectory ==
    \/ ~WalRecover(wal_file).ok
    \/ \E p \in DOMAIN dir : ~SSTableOpen(dir[p])

\* C25 (open is all or nothing): on a directory whose log is corrupt or one
\* of whose .sst files fails to open, Engine::open returns an error and no
\* engine; it never loads the rest
C25_OpenAllOrNothing ==
    BadDirectory =>
        /\ open_result \in {"down", "err"}
        /\ sstables = <<>>
        /\ active_memtable = MemTableNew

\* Engine::open was called on a directory with a torn log and returned an error
C25_Witness ==
    /\ open_result = "err"
    /\ ~WalRecover(wal_file).ok
    /\ wal_file # <<>>
    /\ DOMAIN dir # {}

\* C26 (file names follow recency): of any two tables of the live list, the
\* earlier one has the greater file name
C26_NameOrderIsRecency ==
    \A i, j \in DOMAIN sstables : i < j => NameLess(sstables[j], sstables[i])

\* an engine that was used is dropped and opened again
ReopenStep == epoch \in {"first", "used"} /\ epoch' = "reopened"

\* C27 (reopen equivalence): for every key, get on the engine opened again
\* equals get on the engine just before it was dropped
C27_ReopenEquivalence ==
    [][ReopenStep =>
          \A k \in Keys : EngineGet(active_memtable', sstables', dir', k)
                              = EngineGet(active_memtable, sstables, dir, k)]_vars

\* C28 (crash-consistent flush): after a crash at any step of flush,
\* Engine::open succeeds and, before any further write, get returns for every
\* key the effect of the last write logged on it
C28_CrashConsistentFlush ==
    /\ epoch = "crashed_in_flush" => open_result # "err"
    /\ \A t \in callers :
          (epoch = "recovered" /\ Got(t) /\ \A k \in Keys : wcount[k] = 0)
              => ret[t] = last_op[op[t].key]

\* caller t returns from a flush that wrote a table
FlushReturn(t) == pc[t] = "flush_check" /\ pc'[t] = "idle"

\* what flush leaves, the table list aside: an empty memtable of size 0, an
\* empty log, and a table file whose records are the former memtable entries
FlushLeaves(t) ==
    /\ active_memtable' = MemTableNew
    /\ wal_file' = <<>>
    /\ dir'[op[t].sst_path].data = MemTableIter(op[t].mt0)

C30_FlushNoOpIffEmpty ==
    \A t \in callers :
       (Idle(t) /\ op[t].kind = "flush") => DOMAIN active_memtable.entries = {}

\* C31 (write-ahead order and failure atomicity): put and delete append to
\* the log before they touch the memtable, and a put whose append returned an
\* error is not observed by a later get: with no call in flight, get of its
\* key does not return its value unless the last logged write of the key
\* wrote that value.
C31_FailedWriteUnobserved ==
    (open_result = "ok" /\ \A t \in callers : Idle(t)) =>
        \A f \in failed :
            (f.effect.some /\ last_op[f.key] # f.effect) =>
                EngineGet(active_memtable, sstables, dir, f.key) # f.effect

\* C31, the part that holds: the step in which the append fails leaves the
\* memtable and the table list as they were
C31_FailedStepLeavesEngine ==
    [][failed' # failed => (active_memtable' = active_memtable /\ sstables' = sstables)]_vars

\* a flush of caller t completes in this step
FlushCompletes(t) == pc[t] \in {"flush_check", "flush_return"} /\ pc'[t] = "idle"
\* check_compaction of caller t looks at the flag in this step
FlushChecks(t) == pc[t] = "flush_check" /\ pc'[t] # "flush_check"
\* a compaction thread is started in this step
CompactionStarts == compactions' = compactions + 1

\* C32 (compaction trigger): whenever a flush completes leaving at least 4
\* tables in the live list while no compaction is in flight, a compaction is
\* started; none is started with fewer than 4 live tables or while another
\* one is in flight.
C32_CompactionTrigger ==
    [][/\ \A t \in callers :
              (FlushCompletes(t) /\ Len(sstables') >= CompactionTrigger /\ ~compaction_running)
                  => CompactionStarts
       /\ CompactionStarts => (~compaction_running /\ Len(sstables) >= CompactionTrigger)]_vars

\* C32, the part that holds: a compaction is started exactly when
\* check_compaction, called by a flush, finds at least 4 tables in the live
\* list and no compaction in flight at the time it looks at the flag
C32_TriggerAtCheck ==
    [][/\ \A t \in callers :
              FlushChecks(t) =>
                  (CompactionStarts <=>
                       (~compaction_running /\ Len(sstables) >= CompactionTrigger))
       /\ CompactionStarts => \E t \in callers : FlushChecks(t)
       /\ CompactionStarts => (compaction_running' /\ cpc' = "snapshot")]_vars

\* C33 (get stays in the data region): when the scan of SSTable::get reaches
\* the end of the data region without meeting the key or a greater key (the
\* key is above the last stored key and the filter answers for it), get
\* returns Ok(None), not an error and not a value.
C33_GetStaysInDataRegion ==
    (bench.stage = "got" /\ SSTableScan(bench.file, bench.key).past) =>
        bench.result = Ok(None)

\* the bytes the entries of keys hold: the key, and the value unless the
\* entry is a tombstone
RECURSIVE EntryBytes(_, _)
EntryBytes(entries, keys) ==
    IF keys = {} THEN 0
    ELSE LET k == CHOOSE x \in keys : TRUE
         IN  Len(k) + (IF entries[k].tomb THEN 0 ELSE Len(entries[k].v))
               + EntryBytes(entries, keys \ {k})

C35_CallsReturn ==
    \A t \in Threads :
        (pc[t] # "idle" \/ mt_lock = t \/ wal_lock = t)
            ~> (pc[t] = "idle" /\ mt_lock # t /\ wal_lock # t)

\* a caller inside put or delete waits for the memtable lock, which a flush
\* of the other caller holds while it goes for the log lock
C35_Witness ==
    /\ pc[1] \in {"put_mt", "delete_mt"}
    /\ pc[2] = "flush_truncate"
    /\ mt_lock = 2

\* C36 (lock order on writer paths): put, delete and flush take the log lock
\* first and the memtable lock second; no caller takes the log lock while it
\* holds the memtable lock.
C36_LogLockFirst ==
    [][\A t \in callers : (wal_lock' = t /\ wal_lock # t) => mt_lock # t]_vars

\* C37 (compaction liveness): every compaction that was started ends, on
\* success and on each failure path, with the flag cleared, and the flag is
\* set exactly while the compaction thread exists (so a later flush that
\* finds at least 4 live tables starts a new one).
C37_CompactionEnds ==
    /\ compaction_running ~> (~compaction_running /\ cpc = "idle")
    /\ [](compaction_running <=> cpc # "idle")
    /\ [](compaction_running <=> compactions = 1)

\* a second compaction has been started after one that failed and left its
\* unfinished output in the directory
C37_Witness ==
    /\ cpc = "snapshot"
    /\ compaction_running
    /\ \E p \in DOMAIN dir : p.compact /\ dir[p].footer = <<>>

\* C38 (table integrity check): SSTable::open succeeds on every file that
\* finish produced, for every memtable and sparse interval, and returns an
\* error and no reader once a byte of the data, filter or index region has
\* changed, since the checksum recomputed over the three regions then differs
\* from the one stored in the footer.
C38_IntegrityCheck ==
    /\ bench.stage = "memtable" =>
           \A sparse_interval \in SparseIntervals :
               SSTableOpen(Finish(AddRecords(BuilderWith(sparse_interval, {}),
                                             MemTableIter(bench.mt))))
    /\ bench.stage = "spoiled" =>
           /\ Recomputed(bench.file) # bench.file.footer[1].checksum
           /\ ~bench.opened

\* a table of two records, the second of which was changed after the build;
\* its index holds the first record only
C38_Witness ==
    /\ bench.stage = "spoiled"
    /\ Len(bench.file.data) = 2
    /\ DOMAIN bench.file.index = {bench.file.data[1].key}
    /\ bench.file.data[2].key \notin DOMAIN bench.mt.entries

\* what the cursor has yielded is the first records of the data region, in
\* stored order; it has met no error and decoded no byte behind the data
\* region; when it has returned None it has yielded every record
IterYieldsData ==
    /\ bench.ended \in {"no", "none"}
    /\ Len(bench.out) <= Len(bench.file.data)
    /\ bench.out = SubSeq(bench.file.data, 1, Len(bench.out))
    /\ bench.ended = "none" => bench.out = bench.file.data

\* C39 (full-scan cursor): on any table written by the builder, SSTable::iter
\* yields exactly the records of the data region, once each, in stored order,
\* ends at the filter boundary without yielding bytes of the filter, index or
\* footer, and yields nothing on a table with no records.
C39_FullScan == bench.stage = "iter" => IterYieldsData

\* C39, the part that holds: the same while no other thread calls get on the
\* same reader
C39_FullScanAlone == (bench.stage = "iter" /\ ~bench.shared) => IterYieldsData

====
